---------------------------- MODULE Spec2Model ----------------------------
(***************************************************************************)
(* Model of the stock_trading pipeline:                                    *)
(*   - process_stock_data.compute_indicators (outlier clamp, forward fill, *)
(*     lagged technical indicators, dropna)  -> SpecClamp, SpecInd         *)
(*   - model.format_feature and model.train_and_predict_lstm / _gru        *)
(*     (split, scaler fit, windowing, prediction records) -> Spec          *)
(*                                                                         *)
(* Floating point cells are modelled as                                    *)
(*     <<>>        NaN (a missing value)                                   *)
(*     <<v>>       a finite number v                                       *)
(*     <<s, 0>>    an infinity of sign s                                   *)
(* Raw OHLCV cells hold integer prices/volumes; derived indicator cells    *)
(* hold fixed-point numbers with SC units per 1.0.                         *)
(***************************************************************************)
EXTENDS Integers, Sequences, FiniteSets, TLC

VARIABLES
    raw,        \* the table handed to compute_indicators, as it was at the call
    df_stock,   \* the caller's table object (compute_indicators edits it in place)
    table,      \* the table compute_indicators returned
    alt_raw,    \* a second input table that agrees with raw on a prefix of dates
    alt_table,  \* what compute_indicators returned for alt_raw
    ipc,        \* "ready" before the call, "done" after it
    data,       \* the indicator table read from the CSV file of a ticker
    alt_data,   \* the indicator table the second run is given
    n_steps,    \* the window length both runs are called with
    num_epochs, \* the number of epochs both runs are called with
    run,        \* the locals of the two training runs, by model type
    batch,      \* the locals of process_all and what it has written
    main,       \* the locals of the main loop of model.py
    viz,        \* a call of visualize_predictions: its arguments and result
    ui          \* a call of process_and_predict of the front end

indVars == <<raw, df_stock, table, alt_raw, alt_table, ipc>>

pipeVars == <<data, alt_data, n_steps, num_epochs, run>>

auxVars == <<batch, main, viz, ui>>

vars == <<raw, df_stock, table, alt_raw, alt_table, ipc,
          data, alt_data, n_steps, num_epochs, run,
          batch, main, viz, ui>>

-----------------------------------------------------------------------------
(* Bounds of the model *)

\* fixed-point units per 1.0 of a derived indicator value
SC == 100
\* rows of the deterministic history that precedes the freely chosen bars
\* (at least 50 rows are needed before MA50 is defined)
HistLen == 51
\* number of freely chosen bars at the end of a long table
MaxTail == 2
\* largest number of rows of a short table
MaxRows == 4
\* largest number of rows of the indicator table a training run is given
MaxData == 12
\* largest window length
MaxSteps == 2
\* largest number of epochs
MaxEpochs == 2
\* number of rows at the end of the second run's table that may differ
MaxFree == 2
\* largest number of symbols process_all is run with
MaxSymbols == 3
\* largest number of tickers the orchestrator is run with
MaxTickers == 3
\* number of rows of the table the metrics are computed on
MaxRecords == 3

-----------------------------------------------------------------------------
(* Floating point cells *)

NaN == <<>>
Num(v) == <<v>>
Inf(s) == <<s, 0>>
PosInf == Inf(1)
NegInf == Inf(-1)

IsNaN(c) == c = <<>>
IsFinite(c) == Len(c) = 1
IsInf(c) == Len(c) = 2
Val(c) == c[1]
Sign(c) == IF IsInf(c) THEN c[1] ELSE IF Val(c) > 0 THEN 1 ELSE IF Val(c) < 0 THEN -1 ELSE 0

Abs(n) == IF n < 0 THEN -n ELSE n

FNeg(a) == IF IsNaN(a) THEN NaN ELSE IF IsInf(a) THEN Inf(-a[1]) ELSE Num(-Val(a))

FAdd(a, b) ==
    IF IsNaN(a) \/ IsNaN(b) THEN NaN
    ELSE IF IsInf(a) /\ IsInf(b) THEN (IF a = b THEN a ELSE NaN)
    ELSE IF IsInf(a) THEN a
    ELSE IF IsInf(b) THEN b
    ELSE Num(Val(a) + Val(b))

FSub(a, b) == FAdd(a, FNeg(b))

FAbs(a) == IF IsNaN(a) THEN NaN ELSE IF IsInf(a) THEN PosInf ELSE Num(Abs(Val(a)))

\* a * k for an integer constant k > 0
FScale(a, k) == IF IsFinite(a) THEN Num(Val(a) * k) ELSE a

\* a / b where a and b carry the same unit; the quotient is in SC units
FDiv(a, b) ==
    IF IsNaN(a) \/ IsNaN(b) THEN NaN
    ELSE IF IsInf(a) THEN (IF IsInf(b) THEN NaN
                           ELSE Inf(IF Val(b) < 0 THEN -a[1] ELSE a[1]))
    ELSE IF IsInf(b) THEN Num(0)
    ELSE IF Val(b) = 0 THEN (IF Val(a) = 0 THEN NaN
                             ELSE Inf(IF Val(a) > 0 THEN 1 ELSE -1))
    ELSE Num((Val(a) * SC) \div Val(b))

\* max that skips NaN (DataFrame.max(axis=1) has skipna=True)
FMaxSkip(a, b) ==
    IF IsNaN(a) THEN b
    ELSE IF IsNaN(b) THEN a
    ELSE IF IsInf(a) THEN (IF a[1] = 1 THEN a ELSE b)
    ELSE IF IsInf(b) THEN (IF b[1] = 1 THEN b ELSE a)
    ELSE IF Val(a) >= Val(b) THEN a ELSE b

RECURSIVE ISqrtFrom(_, _)
ISqrtFrom(n, x) ==
    LET y == (x + (n \div x)) \div 2 IN IF y >= x THEN x ELSE ISqrtFrom(n, y)
\* floor of the square root (Newton's iteration)
ISqrt(n) == IF n <= 0 THEN 0 ELSE ISqrtFrom(n, n)

-----------------------------------------------------------------------------
(* Tables: a sequence of rows in ascending date order. *)

OHLCV == {"Open", "High", "Low", "Close", "Volume"}

\* pct_change() of the Close column at row i, compared with the 0.3 threshold:
\*     change = Close[i] / Close[i-1] - 1 ;  change.abs() > 0.3
\* The quotient is rounded to a double before 1 is subtracted.  For integer
\* prices, a rise of exactly 30% gives 1.3 - 1 = 0.30000000000000004 and a
\* fall of exactly 30% gives 0.7 - 1 = -0.30000000000000004, both of which
\* compare greater than the double 0.3 (0.299999999999999988...); every
\* other ratio of integer prices is further than one rounding error from the
\* threshold.  Hence the test is true exactly when 10*|cur-prev| >= 3*prev.
\* Row 1 has no previous close: its change is NaN and NaN > 0.3 is False.
\* a clamp with the threshold at 50%
ChangeExceedsHalf(prev, cur) == 2 * Abs(cur - prev) > Abs(prev)

ChangeExceeds(prev, cur) ==
    IF prev = 0 THEN cur # 0
    ELSE 10 * Abs(cur - prev) >= 3 * Abs(prev)

IsOutlier(df, i) ==
    /\ i > 1
    /\ IsFinite(df[i].Close) /\ IsFinite(df[i-1].Close)
    /\ ChangeExceeds(Val(df[i-1].Close), Val(df[i].Close))

\* df_stock.loc[change.abs() > 0.3, ['Open','High','Low','Close','Volume']] = np.nan
MarkOutliers(df) ==
    [i \in 1..Len(df) |->
        IF IsOutlier(df, i)
        THEN [c \in DOMAIN df[i] |-> IF c \in OHLCV THEN NaN ELSE df[i][c]]
        ELSE df[i]] \o <<>>

\* the value fillna(method='ffill') leaves in column c of row i
RECURSIVE FFillCell(_, _, _)
FFillCell(df, i, c) ==
    IF i < 1 THEN NaN
    ELSE IF ~IsNaN(df[i][c]) THEN df[i][c]
    ELSE FFillCell(df, i - 1, c)

\* df_stock.fillna(method='ffill', inplace=True)
FFill(df) ==
    [i \in 1..Len(df) |->
        [c \in DOMAIN df[i] |-> IF c = "Date" THEN df[i][c] ELSE FFillCell(df, i, c)]]
    \o <<>>

\* lines 70-75 of compute_indicators: the table the indicators are computed on
Cleaned(df) == FFill(MarkOutliers(df))

-----------------------------------------------------------------------------
(* Series: a column as a sequence over the rows, with the pandas           *)
(* operations compute_indicators applies to it.  Each operation ends in    *)
(* "\o <<>>", which leaves the sequence as it is and makes TLC compute it  *)
(* once, as a whole.                                                       *)

Column(df, c) == [i \in 1..Len(df) |-> df[i][c]] \o <<>>

\* a price column in fixed-point units
Fixed(s) == [i \in 1..Len(s) |-> FScale(s[i], SC)] \o <<>>

\* a shift that was left out (the column keeps the value of its own row)
NoShift(s) == s

\* Series.shift(1)
Shift(s) == [i \in 1..Len(s) |-> IF i = 1 THEN NaN ELSE s[i-1]] \o <<>>

\* Series.diff()
Diff(s) == [i \in 1..Len(s) |-> IF i = 1 THEN NaN ELSE FSub(s[i], s[i-1])] \o <<>>

\* element-wise a op b of two columns
Map2(Op(_, _), a, b) == [i \in 1..Len(a) |-> Op(a[i], b[i])] \o <<>>

\* element-wise op a of a column
Map1(Op(_), a) == [i \in 1..Len(a) |-> Op(a[i])] \o <<>>

\* a for loop: acc = Step(acc, k) for k = lo, lo+1, ..., hi.  The range is
\* halved and the first half is evaluated (left = left) before the second
\* is started, which keeps the evaluation shallow.
RECURSIVE Loop(_, _, _, _)
Loop(Step(_, _), acc, lo, hi) ==
    IF lo > hi THEN acc
    ELSE IF lo = hi THEN Step(acc, lo)
    ELSE LET mid == (lo + hi) \div 2
             left == Loop(Step, acc, lo, mid)
         IN  IF left = left THEN Loop(Step, left, mid + 1, hi) ELSE left

\* the sum of s[lo..hi]; NaN when a cell of the range is not finite
\* (rolling() turns infinities into NaN before it aggregates)
SumCells(s, lo, hi) ==
    Loop(LAMBDA acc, k : IF IsNaN(acc) \/ ~IsFinite(s[k]) THEN NaN
                         ELSE Num(Val(acc) + Val(s[k])),
         Num(0), lo, hi)

\* Series.rolling(window=w).mean()   (min_periods = w)
RollingMean(s, w) ==
    [i \in 1..Len(s) |->
        IF i < w THEN NaN
        ELSE LET t == SumCells(s, i - w + 1, i)
             IN  IF IsNaN(t) THEN NaN ELSE Num(Val(t) \div w)] \o <<>>

\* the sum of (s[k] - m)^2 over lo..hi
SumSqDev(s, m, lo, hi) ==
    Loop(LAMBDA acc, k : acc + (Val(s[k]) - m) * (Val(s[k]) - m), 0, lo, hi)

\* Series.rolling(window=w).std()    (sample standard deviation, ddof = 1)
RollingStd(s, w) ==
    [i \in 1..Len(s) |->
        IF i < w THEN NaN
        ELSE LET t == SumCells(s, i - w + 1, i)
             IN  IF IsNaN(t) THEN NaN
                 ELSE Num(ISqrt(SumSqDev(s, Val(t) \div w, i - w + 1, i) \div (w - 1)))]
    \o <<>>

\* Series.ewm(span=span, adjust=False).mean():
\*     y[1] = x[1] ;  y[i] = (1 - a) * y[i-1] + a * x[i]  with a = 2 / (span + 1)
Ewm(s, span) ==
    Loop(LAMBDA y, i :
            Append(y, IF i = 1 THEN s[1]
                      ELSE IF IsNaN(y[i-1]) \/ IsNaN(s[i]) THEN NaN
                      ELSE Num(((span - 1) * Val(y[i-1]) + 2 * Val(s[i])) \div (span + 1))),
         <<>>, 1, Len(s))

\* Series.cumsum()
CumSum(s) ==
    Loop(LAMBDA y, i : Append(y, IF i = 1 THEN s[1] ELSE FAdd(y[i-1], s[i])),
         <<>>, 1, Len(s))

\* Series.clip(lower=0) and Series.clip(upper=0)
ClipLower0(c) == IF IsFinite(c) /\ Val(c) < 0 THEN Num(0) ELSE c
ClipUpper0(c) == IF IsFinite(c) /\ Val(c) > 0 THEN Num(0) ELSE c

-----------------------------------------------------------------------------
(* Calendar fields of a date.  A date is the number of days since          *)
(* 2020-01-01, the first day process_all asks for.                         *)

DaysInYear(y) == IF y % 4 = 0 THEN 366 ELSE 365

DaysInMonth(y, m) ==
    IF m = 2 THEN (IF y % 4 = 0 THEN 29 ELSE 28)
    ELSE IF m \in {4, 6, 9, 11} THEN 30 ELSE 31

RECURSIVE YearFrom(_, _)
YearFrom(y, d) == IF d < DaysInYear(y) THEN <<y, d>> ELSE YearFrom(y + 1, d - DaysInYear(y))

RECURSIVE MonthFrom(_, _, _)
MonthFrom(y, m, d) ==
    IF d < DaysInMonth(y, m) THEN <<m, d + 1>> ELSE MonthFrom(y, m + 1, d - DaysInMonth(y, m))

\* df_stock.index.year / .month / .day
YearOf(date) == YearFrom(2020, date)[1]
MonthOf(date) == MonthFrom(YearOf(date), 1, YearFrom(2020, date)[2])[1]
DayOf(date) == MonthFrom(YearOf(date), 1, YearFrom(2020, date)[2])[2]

-----------------------------------------------------------------------------
(* The indicator columns, each as compute_indicators builds it from the    *)
(* cleaned table d.                                                        *)

CloseOf(d) == Fixed(Column(d, "Close"))
HighOf(d) == Fixed(Column(d, "High"))
LowOf(d) == Fixed(Column(d, "Low"))

\* df['Close'].shift(1).rolling(window=w).mean()
MA(d, w) == RollingMean(Shift(CloseOf(d)), w)

\* 100 - (100 / (1 + rs_value))
RsiOf(rs) == FSub(Num(100 * SC), FDiv(Num(100 * SC), FAdd(Num(SC), rs)))

\* (100 - (100 / (1 + rs_value))).shift(1)
RSI(d) ==
    LET price_change == Diff(CloseOf(d))
        rise == Map1(ClipLower0, price_change)
        drop == Map1(FNeg, Map1(ClipUpper0, price_change))
        mean_rise == RollingMean(rise, 14)
        mean_drop == RollingMean(drop, 14)
        rs_value == Map2(FDiv, mean_rise, mean_drop)
    IN  Shift(Map1(RsiOf, rs_value))

\* (ema_short - ema_long).shift(1)
MACD(d) ==
    LET ema_short == Ewm(CloseOf(d), 12)
        ema_long == Ewm(CloseOf(d), 26)
    IN  Shift(Map2(FSub, ema_short, ema_long))

\* Close * Volume of one row
FMul(a, b) == IF IsFinite(a) /\ IsFinite(b) THEN Num(Val(a) * Val(b)) ELSE NaN

\* ((Close * Volume).cumsum() / Volume.cumsum()).shift(1)
VWAP(d) ==
    LET pv == Map2(FMul, Column(d, "Close"), Column(d, "Volume"))
    IN  Shift(Map2(FDiv, CumSum(pv), CumSum(Column(d, "Volume"))))

Twice(c) == FScale(c, 2)

\* sma = Close.rolling(window=20).mean(), std_dev = Close.rolling(window=20).std()
Sma(d) == RollingMean(CloseOf(d), 20)
StdDev(d) == RollingStd(CloseOf(d), 20)

\* (sma + 2 * std_dev).shift(1) and (sma - 2 * std_dev).shift(1)
Upper_band(sma, std_dev) == Shift(Map2(FAdd, sma, Map1(Twice, std_dev)))
Lower_band(sma, std_dev) == Shift(Map2(FSub, sma, Map1(Twice, std_dev)))

\* the obv list of the loop at lines 113-120 (obv = [0]), in volume units
ObvList(d) ==
    Loop(LAMBDA obv, i :
            Append(obv,
                IF IsFinite(d[i].Close) /\ IsFinite(d[i-1].Close)
                   /\ Val(d[i].Close) > Val(d[i-1].Close)
                THEN FAdd(obv[i-1], d[i].Volume)
                ELSE IF IsFinite(d[i].Close) /\ IsFinite(d[i-1].Close)
                        /\ Val(d[i].Close) < Val(d[i-1].Close)
                THEN FSub(obv[i-1], d[i].Volume)
                ELSE obv[i-1]),
         <<Num(0)>>, 2, Len(d))

\* pd.Series(obv, index=df_stock.index).shift(1)
OBV(d) == Shift(ObvList(d))

\* tr = max(high - low, |high - close.shift()|, |low - close.shift()|)
TrueRange(d) ==
    LET prev == Shift(CloseOf(d))
        tr1 == Map2(FSub, HighOf(d), LowOf(d))
        tr2 == Map1(FAbs, Map2(FSub, HighOf(d), prev))
        tr3 == Map1(FAbs, Map2(FSub, LowOf(d), prev))
    IN  Map2(FMaxSkip, Map2(FMaxSkip, tr1, tr2), tr3)

\* atr = tr.rolling(window=14).mean()
AtrRaw(d) == RollingMean(TrueRange(d), 14)

Times100(c) == FScale(c, 100)

\* 100 * (plus_dm.rolling(window=14).mean() / atr), plus_dm = high.diff()
PlusDiRaw(d, atr) ==
    LET plus_dm == Diff(HighOf(d))
    IN  Map1(Times100, Map2(FDiv, RollingMean(plus_dm, 14), atr))

\* 100 * (minus_dm.rolling(window=14).mean() / atr), minus_dm = low.diff().abs()
MinusDiRaw(d, atr) ==
    LET minus_dm == Map1(FAbs, Diff(LowOf(d)))
    IN  Map1(Times100, Map2(FDiv, RollingMean(minus_dm, 14), atr))

\* (abs(+di - -di) / (+di + -di)).rolling(window=14).mean() * 100
AdxRaw(plus_di, minus_di) ==
    LET dx == Map2(FDiv, Map1(FAbs, Map2(FSub, plus_di, minus_di)),
                         Map2(FAdd, plus_di, minus_di))
    IN  Map1(Times100, RollingMean(dx, 14))

\* df['Close'].shift(1) and the other lagged raw columns
Lagged(d, c) == Shift(Column(d, c))

-----------------------------------------------------------------------------
(* compute_indicators *)

IndicatorColumns ==
    {"Year", "Month", "Day", "MA5", "MA10", "MA20", "MA50", "RSI", "MACD", "VWAP",
     "Upper_band", "Lower_band", "OBV", "PlusDI", "MinusDI", "ADX", "ATR",
     "Open_yes", "High_yes", "Low_yes", "Close_yes", "Volume_yes", "Prev_Close"}

\* the caller's table after lines 70-156, all of which edit df_stock in place
\* ("PlusDI" and "MinusDI" stand for the columns '+DI' and '-DI')
Enriched(df) ==
    LET d == Cleaned(df)
        ma5 == MA(d, 5)
        ma10 == MA(d, 10)
        ma20 == MA(d, 20)
        ma50 == MA(d, 50)
        rsi == RSI(d)
        macd == MACD(d)
        vwap == VWAP(d)
        sma == Sma(d)
        std_dev == StdDev(d)
        upper == Upper_band(sma, std_dev)
        lower == Lower_band(sma, std_dev)
        obv == OBV(d)
        atr_raw == AtrRaw(d)
        plus_di == PlusDiRaw(d, atr_raw)
        minus_di == MinusDiRaw(d, atr_raw)
        pdi == Shift(plus_di)
        mdi == Shift(minus_di)
        adx == Shift(AdxRaw(plus_di, minus_di))
        atr == Shift(atr_raw)
        open_yes == Lagged(d, "Open")
        high_yes == Lagged(d, "High")
        low_yes == Lagged(d, "Low")
        close_yes == Lagged(d, "Close")
        volume_yes == Lagged(d, "Volume")
    IN  [i \in 1..Len(d) |->
            [Date |-> d[i].Date,
             Open |-> d[i].Open, High |-> d[i].High, Low |-> d[i].Low,
             Close |-> d[i].Close, Volume |-> d[i].Volume,
             Year |-> Num(YearOf(d[i].Date)),
             Month |-> Num(MonthOf(d[i].Date)),
             Day |-> Num(DayOf(d[i].Date)),
             MA5 |-> ma5[i], MA10 |-> ma10[i], MA20 |-> ma20[i], MA50 |-> ma50[i],
             RSI |-> rsi[i],
             MACD |-> macd[i],
             VWAP |-> vwap[i],
             Upper_band |-> upper[i], Lower_band |-> lower[i],
             OBV |-> obv[i],
             PlusDI |-> pdi[i], MinusDI |-> mdi[i],
             ADX |-> adx[i],
             ATR |-> atr[i],
             Open_yes |-> open_yes[i], High_yes |-> high_yes[i],
             Low_yes |-> low_yes[i], Close_yes |-> close_yes[i],
             Volume_yes |-> volume_yes[i],
             Prev_Close |-> close_yes[i]]] \o <<>>

HasNaN(row) == \E c \in DOMAIN row : c # "Date" /\ IsNaN(row[c])

\* df_stock.dropna()
DropNa(t) == SelectSeq(t, LAMBDA row : ~HasNaN(row))

\* what compute_indicators leaves in the caller's table
InPlace(df) == IF df = <<>> \/ "Close" \notin DOMAIN df[1] THEN df ELSE Enriched(df)

\* what compute_indicators returns (an empty table for an empty input and
\* for a table without a Close column)
compute_indicators(df) ==
    IF df = <<>> \/ "Close" \notin DOMAIN df[1] THEN <<>> ELSE DropNa(Enriched(df))

-----------------------------------------------------------------------------
(* Input tables of the indicator engine *)

Bar(date, o, h, l, c, v) ==
    [Date |-> date, Open |-> Num(o), High |-> Num(h), Low |-> Num(l),
     Close |-> Num(c), Volume |-> Num(v)]

\* the closes a freely chosen bar may take.  Against a previous close of 20
\* they are: no move, a move within 30%, a rise of exactly 30%, a rise of
\* 50%, and a fall of exactly 30%.
TailCloses == {20, 22, 26, 30, 14}

\* the closes of the bars that follow a history (whose closes are 20..24)
LongCloses == {22, 30, 14}

\* a freely chosen bar with close c on day date
TailBar(date, c) == Bar(date, c - 1, c + 2, c - 3, c, 2 + ((date + c) % 4))

\* row i of the history a long table starts with: closes between 20 and 24
HistBar(seed, i) ==
    LET c == 20 + ((i * seed) % 5)
    IN  Bar(i - 1, c - 1, c + 2 + (i % 2), c - 2, c, 3 + (i % 3))

History(seed, n) == [i \in 1..n |-> HistBar(seed, i)] \o <<>>

Seeds == {3}

RECURSIVE Tails(_, _, _)
\* every sequence of k freely chosen bars for the days first, first+1, ...
Tails(closes, first, k) ==
    IF k = 0 THEN {<<>>}
    ELSE {<<TailBar(first, c)>> \o t : c \in closes, t \in Tails(closes, first + 1, k - 1)}

\* short tables: 1..MaxRows freely chosen bars
ShortTables == UNION {Tails(TailCloses, 0, k) : k \in 1..MaxRows}

\* long tables: a history followed by MaxTail freely chosen bars
LongTables ==
    {History(seed, HistLen) \o t : seed \in Seeds, t \in Tails(LongCloses, HistLen, MaxTail)}

\* the tables that agree with df on its first p rows and have other bars on
\* the same dates from row p+1 on
Perturbed(df, p) ==
    {SubSeq(df, 1, p) \o t : t \in Tails(LongCloses, p, Len(df) - p)} \ {df}

-----------------------------------------------------------------------------
(* model.format_feature *)

\* the columns format_feature selects, in the order of its list, in which
\* 'Volume_yes' occurs twice ("MinusDI" and "PlusDI" stand for '-DI', '+DI')
features ==
    <<"Volume_yes", "Year", "Month", "Day", "MA5", "MA10", "MA20", "MA50", "RSI",
      "MACD", "VWAP", "Upper_band", "Lower_band", "ATR", "Prev_Close", "ADX",
      "MinusDI", "PlusDI", "Close_yes", "Open_yes", "High_yes", "Low_yes",
      "Volume_yes", "OBV">>

\* Series.pct_change() of two consecutive closes: cur / prev - 1
PctChange(prev, cur) == FSub(FDiv(cur, prev), Num(SC))

RECURSIVE LastValid(_, _)
\* fillna(method='ffill') at position i of a series of cells
LastValid(s, i) == IF i <= 1 \/ ~IsNaN(s[i]) THEN s[i] ELSE LastValid(s, i - 1)

\* data[features].iloc[1:] -- the rows keep the index (the date) of data
FeatureFrame(d) ==
    [i \in 1..(Len(d) - 1) |->
        [Date |-> d[i+1].Date,
         v |-> [j \in 1..Len(features) |-> d[i+1][features[j]]] \o <<>>]] \o <<>>

\* X.fillna(method='ffill')
FillFrame(X) ==
    [i \in 1..Len(X) |->
        [Date |-> X[i].Date,
         v |-> [j \in 1..Len(X[i].v) |->
                  LastValid([r \in 1..Len(X) |-> X[r].v[j]] \o <<>>, i)] \o <<>>]] \o <<>>

\* the change computed after the first row is dropped: the first retained
\* row has no previous close
TargetSeriesAfterDrop(d) ==
    [i \in 1..(Len(d) - 1) |->
        [Date |-> d[i+1].Date,
         v |-> IF i = 1 THEN NaN ELSE PctChange(d[i].Close, d[i+1].Close)]] \o <<>>

\* data['Close'].pct_change().iloc[1:]
TargetSeries(d) ==
    [i \in 1..(Len(d) - 1) |->
        [Date |-> d[i+1].Date, v |-> PctChange(d[i].Close, d[i+1].Close)]] \o <<>>

\* y.fillna(method='ffill')
FillSeries(y) ==
    [i \in 1..Len(y) |->
        [Date |-> y[i].Date,
         v |-> LastValid([r \in 1..Len(y) |-> y[r].v] \o <<>>, i)]] \o <<>>

format_feature(d) ==
    LET X == FeatureFrame(d)
        y == TargetSeries(d)
    IN  [X |-> IF \E i \in 1..Len(X) : \E j \in 1..Len(X[i].v) : IsNaN(X[i].v[j])
               THEN FillFrame(X) ELSE X,
         y |-> IF \E i \in 1..Len(y) : IsNaN(y[i].v) THEN FillSeries(y) ELSE y]

-----------------------------------------------------------------------------
(* model.train_and_predict_lstm / train_and_predict_gru: split, scalers,   *)
(* windows.  The two functions differ in the network they build and in the *)
(* labels of their plots only.                                             *)

\* a split that rounds 0.8 * n to the nearest integer
SplitIdxRounded(n) == (n * 8 + 5) \div 10

\* int(len(X) * 0.8): the double product, truncated, is floor(8n/10) for
\* every table length below two million rows
SplitIdx(n) == (n * 8) \div 10

\* a train partition that is the whole table
WholeTable(s, k) == s

\* X.iloc[:split_idx], y.iloc[:split_idx]
TrainPart(s, k) == SubSeq(s, 1, k)

\* a validation partition that starts one row early
ValPartOverlap(s, k) == SubSeq(s, k, Len(s))

\* X.iloc[split_idx:], y.iloc[split_idx:]
ValPart(s, k) == SubSeq(s, k + 1, Len(s))

\* y_train_raw.values.reshape(-1, 1): a column of one-cell rows
Reshape(part) ==
    [i \in 1..Len(part) |-> [Date |-> part[i].Date, v |-> <<part[i].v>>]] \o <<>>

ColMin(part, j) ==
    CHOOSE m \in {Val(part[i].v[j]) : i \in 1..Len(part)} :
        \A i \in 1..Len(part) : m <= Val(part[i].v[j])

ColMax(part, j) ==
    CHOOSE m \in {Val(part[i].v[j]) : i \in 1..Len(part)} :
        \A i \in 1..Len(part) : m >= Val(part[i].v[j])

\* the columns whose cells hold SC units per 1.0 (the others hold whole
\* numbers)
FixedPointColumns ==
    {"MA5", "MA10", "MA20", "MA50", "RSI", "MACD", "VWAP", "Upper_band",
     "Lower_band", "ATR", "ADX", "MinusDI", "PlusDI"}

\* units per 1.0 of each column of X_train_raw
FeatureUnits ==
    [j \in 1..Len(features) |-> IF features[j] \in FixedPointColumns THEN SC ELSE 1] \o <<>>

\* units per 1.0 of the one column of y_train_raw.values.reshape(-1, 1)
TargetUnits == <<SC>>

\* MinMaxScaler().fit(part) on a part of at least one row of finite cells
\* whose column j holds units[j] units per 1.0.
\* scale_ = 1 / (data_max_ - data_min_), with 1 for a column of range 0, is
\* kept with SC * SC units per 1.0; min_ = -data_min_ * scale_ with SC units.
MinMaxFit(part, units) ==
    LET cols == 1..Len(part[1].v)
        lo == [j \in cols |-> ColMin(part, j)] \o <<>>
        hi == [j \in cols |-> ColMax(part, j)] \o <<>>
        sc == [j \in cols |->
                 IF hi[j] = lo[j] THEN (SC * SC) \div units[j]
                 ELSE (SC * SC) \div (hi[j] - lo[j])] \o <<>>
    IN  [data_min_ |-> lo,
         data_max_ |-> hi,
         scale_ |-> sc,
         min_ |-> [j \in cols |-> 0 - ((lo[j] * sc[j]) \div SC)] \o <<>>]

\* a transform that clips its result to the feature range [0, 1]
TransformClipped(scaler, part) ==
    [i \in 1..Len(part) |->
        [Date |-> part[i].Date,
         v |-> [j \in 1..Len(part[i].v) |->
                  IF IsFinite(part[i].v[j])
                  THEN LET x == ((Val(part[i].v[j]) * scaler.scale_[j]) \div SC) + scaler.min_[j]
                       IN  Num(IF x < 0 THEN 0 ELSE IF x > SC THEN SC ELSE x)
                  ELSE part[i].v[j]] \o <<>>]] \o <<>>

\* scaler.transform(part): X * scale_ + min_, cell by cell.  The result is
\* an array without index; Date records the index label of the row of X (or
\* y) each array row was computed from.
Transform(scaler, part) ==
    [i \in 1..Len(part) |->
        [Date |-> part[i].Date,
         v |-> [j \in 1..Len(part[i].v) |->
                  IF IsFinite(part[i].v[j])
                  THEN Num(((Val(part[i].v[j]) * scaler.scale_[j]) \div SC) + scaler.min_[j])
                  ELSE part[i].v[j]] \o <<>>]] \o <<>>

\* scaler_y.inverse_transform(y_pred)[0][0]: (x - min_) / scale_
InverseTransform(scaler, x) ==
    IF ~IsFinite(x) THEN x
    ELSE FDiv(Num(Val(x) - scaler.min_[1]), Num(scaler.scale_[1]))

\* windows paired with the target of their own last row
create_sequences_unshifted(feats, target, n) ==
    [X_seq |-> [i \in 1..(Len(feats) - n) |-> SubSeq(feats, i, i + n - 1)] \o <<>>,
     y_seq |-> [i \in 1..(Len(feats) - n) |-> target[i + n - 1]] \o <<>>]

\* create_sequences(features, target, n_steps): the loop over
\* range(len(features) - n_steps), appending features[i:(i + n_steps)] and
\* target[i + n_steps]
create_sequences(feats, target, n) ==
    LET Step(acc, i) ==
            [X_seq |-> Append(acc.X_seq, SubSeq(feats, i + 1, i + n)),
             y_seq |-> Append(acc.y_seq, target[i + n + 1])]
    IN  Loop(Step, [X_seq |-> <<>>, y_seq |-> <<>>], 0, Len(feats) - n - 1)

\* the locals of lines 130-157 for a table X of at least two rows
SplitScaleWindow(X, y, n) ==
    LET k == SplitIdx(Len(X))
        X_train_raw == TrainPart(X, k)
        X_val_raw == ValPart(X, k)
        y_train_raw == TrainPart(y, k)
        y_val_raw == ValPart(y, k)
        scaler_y == MinMaxFit(Reshape(y_train_raw), TargetUnits)
        scaler_X == MinMaxFit(X_train_raw, FeatureUnits)
        y_train_scaled == Transform(scaler_y, Reshape(y_train_raw))
        y_val_scaled == Transform(scaler_y, Reshape(y_val_raw))
        X_train_scaled == Transform(scaler_X, X_train_raw)
        X_val_scaled == Transform(scaler_X, X_val_raw)
        train == create_sequences(X_train_scaled, y_train_scaled, n)
        val == create_sequences(X_val_scaled, y_val_scaled, n)
    IN  [split_idx |-> k,
         X_train_raw |-> X_train_raw, X_val_raw |-> X_val_raw,
         y_train_raw |-> y_train_raw, y_val_raw |-> y_val_raw,
         scaler_X |-> scaler_X, scaler_y |-> scaler_y,
         X_train_scaled |-> X_train_scaled, X_val_scaled |-> X_val_scaled,
         y_train_scaled |-> y_train_scaled, y_val_scaled |-> y_val_scaled,
         X_train |-> train.X_seq, y_train |-> train.y_seq,
         X_val |-> val.X_seq, y_val |-> val.y_seq]

\* an index that leaves the window length out
OriginalIdxNoSteps(k, n, i) == k + i

\* original_idx = split_idx + n_steps + i
OriginalIdx(k, n, i) == k + n + i

\* The files a run writes, as paths below save_dir.

\* the file name plot_training_loss uses when it is given no model type
plot_training_loss_untyped(ticker, model_type) == "pic/loss/" \o ticker \o "_loss.png"

\* save_path of plot_training_loss
plot_training_loss(ticker, model_type) ==
    "pic/loss/" \o ticker \o "_" \o model_type \o "_loss.png"

\* save_path of plot_cumulative_earnings
plot_cumulative_earnings(ticker, model_type) ==
    "pic/earnings/" \o ticker \o "_" \o model_type \o "_cumulative.png"

\* save_path of plot_stock_prediction
plot_stock_prediction(ticker, model_type) ==
    "pic/predictions/" \o ticker \o "_" \o model_type \o "_prediction.png"

\* file_path of save_predictions_with_indices
save_predictions_with_indices(ticker, model_type) ==
    "predictions/" \o ticker \o "_" \o model_type \o "_predictions.pkl"

\* the metrics table and the summary report of predict
MetricsCsv(ticker_name, model_type) ==
    "output/" \o ticker_name \o "_prediction_metrics_" \o model_type \o "_attention.csv"
SummaryTxt(ticker_name, model_type) ==
    "output/" \o ticker_name \o "_prediction_summary_" \o model_type \o "_attention.txt"

\* StepLR(optimizer, step_size=50, gamma=0.1)
step_size == 50

\* a scheduler that multiplies the rate one step later
StepLRLate(sch) ==
    [last_epoch |-> sch.last_epoch + 1,
     lr |-> IF sch.last_epoch % step_size = 0 /\ sch.last_epoch > 0 THEN sch.lr + 1 ELSE sch.lr]

\* scheduler.step(): last_epoch += 1, and the rate of the optimizer is
\* multiplied by gamma when last_epoch is a multiple of step_size.  The rate
\* is kept as the power of gamma that multiplies learning_rate.
StepLR(sch) ==
    [last_epoch |-> sch.last_epoch + 1,
     lr |-> IF (sch.last_epoch + 1) % step_size = 0 THEN sch.lr + 1 ELSE sch.lr]

\* a guard that also leaves out the last index within the data
InRangeButLast(original_idx, d, y) == original_idx + 1 < Len(d) /\ original_idx + 1 < Len(y)

\* if original_idx < len(data) and original_idx < len(y)
InRange(original_idx, d, y) == original_idx < Len(d) /\ original_idx < Len(y)

\* the outputs the network may give for a window, in the scaled target space
ModelOutputs == {Num(0), Num(SC \div 2)}

-----------------------------------------------------------------------------
(* Indicator tables a training run may be given *)

\* a row of an indicator table: close c on day date after a close of p.  The
\* lagged columns hold the previous bar's values; the other indicators hold
\* values near the previous close.
SynthRow(date, p, c) ==
    [Date |-> date,
     Open |-> Num(c - 1), High |-> Num(c + 2), Low |-> Num(c - 3),
     Close |-> Num(c), Volume |-> Num(3 + (date % 3)),
     Year |-> Num(YearOf(date)), Month |-> Num(MonthOf(date)), Day |-> Num(DayOf(date)),
     MA5 |-> Num(p * SC), MA10 |-> Num(p * SC - 10),
     MA20 |-> Num(p * SC - 20), MA50 |-> Num(p * SC - 50),
     RSI |-> Num(50 * SC + p), MACD |-> Num(p - 20), VWAP |-> Num(p * SC + 5),
     Upper_band |-> Num((p + 4) * SC), Lower_band |-> Num((p - 4) * SC),
     OBV |-> Num(date % 5),
     PlusDI |-> Num(20 * SC + p), MinusDI |-> Num(20 * SC - p),
     ADX |-> Num(10 * SC + (date % 4)), ATR |-> Num(4 * SC),
     Open_yes |-> Num(p - 1), High_yes |-> Num(p + 2), Low_yes |-> Num(p - 3),
     Close_yes |-> Num(p), Volume_yes |-> Num(3 + ((date - 1) % 3)),
     Prev_Close |-> Num(p)]

\* the indicator table of a series of closes, on consecutive days
SynthTable(closes) ==
    [i \in 1..Len(closes) |->
        SynthRow(60 + i, IF i = 1 THEN 20 ELSE closes[i-1], closes[i])] \o <<>>

\* close of row i of the first run's table
PatternClose(i) == 20 + ((i * 3) % 7)

\* the closes a row of the second run's table may have instead
FreeCloses == {21, 25}

RECURSIVE CloseTails(_, _)
\* every choice of closes for the rows first .. last
CloseTails(first, last) ==
    IF first > last THEN {<<>>}
    ELSE {<<c>> \o t : c \in FreeCloses \union {PatternClose(first)},
                       t \in CloseTails(first + 1, last)}

DataTables == {SynthTable([i \in 1..n |-> PatternClose(i)]) : n \in 1..MaxData}

\* the tables of the dates of d that agree with d on all but the last
\* MaxFree rows (d itself is one of them)
AltTables(d) ==
    LET n == Len(d)
        p == IF n > MaxFree THEN n - MaxFree ELSE 0
    IN  {SynthTable([i \in 1..p |-> PatternClose(i)] \o t) : t \in CloseTails(p + 1, n)}

-----------------------------------------------------------------------------
(* The locals of a training run *)

Models == {"LSTM", "GRU"}

NoScaler == [data_min_ |-> <<>>, data_max_ |-> <<>>, scale_ |-> <<>>, min_ |-> <<>>]

\* the locals of a run that has not started
IdleRun ==
    [pc |-> "idle", error |-> "",
     X |-> <<>>, y |-> <<>>,
     split_idx |-> 0,
     X_train_raw |-> <<>>, X_val_raw |-> <<>>, y_train_raw |-> <<>>, y_val_raw |-> <<>>,
     scaler_X |-> NoScaler, scaler_y |-> NoScaler,
     X_train_scaled |-> <<>>, X_val_scaled |-> <<>>,
     y_train_scaled |-> <<>>, y_val_scaled |-> <<>>,
     X_train |-> <<>>, y_train |-> <<>>, X_val |-> <<>>, y_val |-> <<>>,
     epoch |-> 0, train_losses |-> <<>>, val_losses |-> <<>>,
     i |-> 0,
     predictions |-> <<>>, test_indices |-> <<>>,
     predict_percentages |-> <<>>, actual_percentages |-> <<>>,
     scheduler |-> [last_epoch |-> 0, lr |-> 0], lr_used |-> <<>>,
     ticker |-> "MSFT", saved |-> {}]

\* no training run is under way
IdlePipe ==
    /\ data = <<>>
    /\ alt_data = <<>>
    /\ n_steps = 1
    /\ num_epochs = 1
    /\ run = [m \in Models |-> IdleRun]

-----------------------------------------------------------------------------
(* process_stock_data.fetch_stock_history and process_all *)

\* from_date = '2020-01-01' and to_date = '2024-01-01' as days since 2020-01-01
from_date == 0
to_date == 1461

\* a frame that is never taken for empty
EmptyNever(df) == FALSE

\* DataFrame.empty
Empty(df) == df = <<>>

\* df_raw[(df_raw.index >= date_from) & (df_raw.index <= date_to)]
DateFilter(df, date_from, date_to) ==
    SelectSeq(df, LAMBDA row : row.Date >= date_from /\ row.Date <= date_to)

\* fetch_stock_history for a symbol whose get_daily_kline gives df_raw
fetch_stock_history(df_raw, date_from, date_to) ==
    IF Empty(df_raw) THEN <<>>
    ELSE compute_indicators(DateFilter(df_raw, date_from, date_to))

\* a bar without a close
NoCloseBar(date) ==
    [Date |-> date, Open |-> Num(19), High |-> Num(22), Low |-> Num(17),
     Volume |-> Num(3)]

\* what get_daily_kline may do for a symbol: raise (the request fails), or
\* return no rows, rows without Close, rows after to_date, too few rows for
\* any indicator row to survive dropna, or enough rows
ApiOutcomes ==
    {[kind |-> "raise", df |-> <<>>],
     [kind |-> "table", df |-> <<>>],
     [kind |-> "table", df |-> <<NoCloseBar(10), NoCloseBar(11)>>],
     [kind |-> "table", df |-> <<TailBar(to_date + 1, 20), TailBar(to_date + 2, 22)>>],
     [kind |-> "table", df |-> <<TailBar(10, 20), TailBar(11, 22)>>],
     [kind |-> "table", df |-> History(3, HistLen + 1)]}

RECURSIVE SymbolLists(_)
\* every list of n symbols, each given by what the API does for it
SymbolLists(n) ==
    IF n = 0 THEN {<<>>}
    ELSE {<<a>> \o t : a \in ApiOutcomes, t \in SymbolLists(n - 1)}

\* process_all before its loop, and the other entry points before they run
IdleBatch == [pc |-> "idle", symbols |-> <<>>, i |-> 0, results |-> <<>>, csv |-> {}]
IdleMain ==
    [pc |-> "idle", tickers |-> <<>>, i |-> 0, stage |-> "load", attempts |-> <<>>,
     all_lstm_metrics |-> {}, all_gru_metrics |-> {}, compared |-> 0]
NoMetrics == [rmse |-> NaN, mae |-> NaN, accuracy |-> NaN]
IdleViz ==
    [pc |-> "idle", data |-> <<>>, test_indices |-> <<>>, predictions |-> <<>>,
     given |-> <<>>, metrics |-> NoMetrics, saved |-> {}]
IdleUi ==
    [pc |-> "idle", temp_csv_path |-> "", model_type |-> "LSTM", fault |-> "none",
     ticker |-> "", lstm_epochs |-> 0, gru_epochs |-> 0, epochs |-> 0, outputs |-> <<>>, raised |-> FALSE]

IdleAux ==
    /\ batch = IdleBatch
    /\ main = IdleMain
    /\ viz = IdleViz
    /\ ui = IdleUi

\* nothing of the indicator engine or of the training runs is under way
IdleInd ==
    /\ raw = <<>>
    /\ alt_raw = <<>>
    /\ df_stock = <<>>
    /\ table = <<>>
    /\ alt_table = <<>>
    /\ ipc = [main |-> "done", alt |-> "done"]

-----------------------------------------------------------------------------
(* The indicator engine as a state machine: the caller holds a table and   *)
(* calls compute_indicators on it; a second caller does the same with a    *)
(* table that differs from the first one only from some date on.           *)

InitClamp ==
    /\ raw \in ShortTables
    /\ alt_raw = <<>>
    /\ df_stock = raw
    /\ table = <<>>
    /\ alt_table = <<>>
    /\ ipc = [main |-> "ready", alt |-> "ready"]
    /\ IdlePipe
    /\ IdleAux

InitInd ==
    /\ raw \in LongTables
    /\ \E p \in HistLen..(HistLen + MaxTail - 1) : alt_raw \in Perturbed(raw, p)
    /\ df_stock = raw
    /\ table = <<>>
    /\ alt_table = <<>>
    /\ ipc = [main |-> "ready", alt |-> "ready"]
    /\ IdlePipe
    /\ IdleAux

\* df_final = compute_indicators(df_raw, ...)
ComputeIndicators ==
    /\ ipc.main = "ready"
    /\ df_stock' = InPlace(df_stock)
    /\ table' = (IF df_stock = <<>> \/ "Close" \notin DOMAIN df_stock[1]
                 THEN <<>> ELSE DropNa(df_stock'))
    /\ ipc' = [ipc EXCEPT !.main = "done"]
    /\ UNCHANGED <<raw, alt_raw, alt_table>>
    /\ UNCHANGED <<pipeVars, auxVars>>

\* the same call, afterwards, on the second table
ComputeIndicatorsAlt ==
    /\ ipc.main = "done"
    /\ ipc.alt = "ready"
    /\ alt_table' = compute_indicators(alt_raw)
    /\ ipc' = [ipc EXCEPT !.alt = "done"]
    /\ UNCHANGED <<raw, df_stock, table, alt_raw>>
    /\ UNCHANGED <<pipeVars, auxVars>>

NextInd == ComputeIndicators \/ ComputeIndicatorsAlt

SpecClamp == InitClamp /\ [][NextInd]_vars

SpecInd == InitInd /\ [][NextInd]_vars

-----------------------------------------------------------------------------
(* process_all as a state machine: one pass of its loop per symbol *)

InitBatch ==
    /\ \E n \in 1..MaxSymbols :
          batch \in {[IdleBatch EXCEPT !.pc = "loop", !.symbols = l] : l \in SymbolLists(n)}
    /\ main = IdleMain
    /\ viz = IdleViz
    /\ ui = IdleUi
    /\ IdleInd
    /\ IdlePipe

\* lines 188-197: one symbol.  An exception of fetch_stock_history is
\* caught and printed; an empty result is printed; any other is written to
\* data/<code>.csv
ProcessSymbol ==
    /\ batch.pc = "loop"
    /\ batch.i < Len(batch.symbols)
    /\ LET api == batch.symbols[batch.i + 1]
           df_result == fetch_stock_history(api.df, from_date, to_date)
       IN  IF api.kind = "raise"
           THEN batch' = [batch EXCEPT
                    !.i = @ + 1,
                    !.results = Append(@, [outcome |-> "error", df |-> <<>>])]
           ELSE IF Empty(df_result)
           THEN batch' = [batch EXCEPT
                    !.i = @ + 1,
                    !.results = Append(@, [outcome |-> "nodata", df |-> df_result])]
           ELSE batch' = [batch EXCEPT
                    !.i = @ + 1,
                    !.results = Append(@, [outcome |-> "csv", df |-> df_result]),
                    !.csv = @ \union {batch.i + 1}]
    /\ UNCHANGED <<indVars, pipeVars, main, viz, ui>>

\* the loop of process_all is over
ProcessAllReturn ==
    /\ batch.pc = "loop"
    /\ batch.i = Len(batch.symbols)
    /\ batch' = [batch EXCEPT !.pc = "done"]
    /\ UNCHANGED <<indVars, pipeVars, main, viz, ui>>

NextBatch == ProcessSymbol \/ ProcessAllReturn

SpecBatch == InitBatch /\ [][NextBatch]_vars

-----------------------------------------------------------------------------
(* The training runs as a state machine.  As in the main loop of model.py, *)
(* the LSTM run is followed by the GRU run; the GRU run is given alt_data, *)
(* which may be the table of the LSTM run or differ from it in its last    *)
(* rows.                                                                   *)

\* the table a run is given
InputOf(m) == IF m = "LSTM" THEN data ELSE alt_data

\* the GRU run starts when the LSTM run has returned or raised
MayStart(m) == m = "LSTM" \/ run["LSTM"].pc \in {"reported", "failed"}

InitPipe ==
    /\ data \in DataTables
    /\ alt_data \in AltTables(data)
    /\ n_steps \in 1..MaxSteps
    /\ num_epochs \in 1..MaxEpochs
    /\ run = [m \in Models |-> IdleRun]

Init ==
    /\ InitPipe
    /\ raw = <<>>
    /\ alt_raw = <<>>
    /\ df_stock = <<>>
    /\ table = <<>>
    /\ alt_table = <<>>
    /\ ipc = [main |-> "done", alt |-> "done"]
    /\ IdleAux

\* stock_features = format_feature(stock_data)
FormatFeature(m) ==
    /\ run[m].pc = "idle"
    /\ MayStart(m)
    /\ LET f == format_feature(InputOf(m))
       IN  run' = [run EXCEPT ![m].pc = "formatted", ![m].X = f.X, ![m].y = f.y]
    /\ UNCHANGED <<data, alt_data, n_steps, num_epochs>>

\* lines 130-177: split, scalers, windows, tensors, network.  Fitting a
\* scaler on an empty train partition raises ValueError; X_train.shape[2]
\* raises IndexError when there is no training window.
Prepare(m) ==
    /\ run[m].pc = "formatted"
    /\ IF SplitIdx(Len(run[m].X)) = 0
       THEN run' = [run EXCEPT ![m].pc = "failed", ![m].error = "ValueError",
                               ![m].X_val_raw = run[m].X, ![m].y_val_raw = run[m].y]
       ELSE LET loc == SplitScaleWindow(run[m].X, run[m].y, n_steps)
                r == loc @@ run[m]
            IN  IF loc.X_train = <<>>
                THEN run' = [run EXCEPT ![m] = [r EXCEPT !.pc = "failed",
                                                         !.error = "IndexError"]]
                ELSE run' = [run EXCEPT ![m] = [r EXCEPT !.pc = "training"]]
    /\ UNCHANGED <<data, alt_data, n_steps, num_epochs>>

\* the training pass of one epoch, lines 182-193.  The loss values are not
\* modelled: the lists record the epoch each entry belongs to.  Every
\* optimizer.step() of the pass uses the rate the optimizer holds, which
\* nothing in the pass assigns; lr_used records it.
TrainPass(m) ==
    /\ run[m].pc = "training"
    /\ run[m].epoch < num_epochs
    /\ run' = [run EXCEPT ![m].train_losses = Append(@, run[m].epoch),
                          ![m].lr_used = Append(@, run[m].scheduler.lr),
                          ![m].pc = "validating"]
    /\ UNCHANGED <<data, alt_data, n_steps, num_epochs>>

\* the validation pass of the same epoch and the end of the loop body,
\* lines 196-209.  Without a validation window len(val_loader) is 0 and
\* line 204 raises ZeroDivisionError.
ValPass(m) ==
    /\ run[m].pc = "validating"
    /\ IF run[m].X_val = <<>>
       THEN run' = [run EXCEPT ![m].pc = "failed",
                               ![m].error = "ZeroDivisionError"]
       ELSE run' = [run EXCEPT ![m].val_losses = Append(@, run[m].epoch),
                               ![m].epoch = @ + 1,
                               ![m].scheduler = StepLR(@),
                               ![m].pc = "training"]
    /\ UNCHANGED <<data, alt_data, n_steps, num_epochs>>

\* the epoch loop is left after its first pass
PlotTrainingLossEarly(m) ==
    /\ run[m].pc = "training"
    /\ run[m].epoch >= 1
    /\ run' = [run EXCEPT ![m].pc = "evaluating",
                          ![m].saved = @ \union {plot_training_loss(run[m].ticker, m)}]
    /\ UNCHANGED <<data, alt_data, n_steps, num_epochs>>

\* the epoch loop is over: plot_training_loss, model.eval(), empty lists
PlotTrainingLoss(m) ==
    /\ run[m].pc = "training"
    /\ run[m].epoch = num_epochs
    /\ run' = [run EXCEPT ![m].pc = "evaluating",
                          ![m].saved = @ \union {plot_training_loss(run[m].ticker, m)}]
    /\ UNCHANGED <<data, alt_data, n_steps, num_epochs>>

\* one pass of the prediction loop, lines 223-238
PredictWindow(m) ==
    /\ run[m].pc = "evaluating"
    /\ run[m].i < Len(run[m].X_val)
    /\ \E y_pred \in ModelOutputs :
          LET d == InputOf(m)
              y_pred_value == InverseTransform(run[m].scaler_y, y_pred)
              original_idx == OriginalIdx(run[m].split_idx, n_steps, run[m].i)
          IN  IF InRange(original_idx, d, run[m].y)
              THEN run' = [run EXCEPT
                       ![m].predictions =
                           Append(@, FMul(FAdd(Num(SC), y_pred_value), d[original_idx].Close)),
                       ![m].test_indices = Append(@, d[original_idx + 1].Date),
                       ![m].predict_percentages = Append(@, FScale(y_pred_value, 100)),
                       ![m].actual_percentages =
                           Append(@, FScale(run[m].y[original_idx + 1].v, 100)),
                       ![m].i = @ + 1]
              ELSE run' = [run EXCEPT ![m].i = @ + 1]
    /\ UNCHANGED <<data, alt_data, n_steps, num_epochs>>

\* the prediction loop is over: plot_cumulative_earnings, return
Return(m) ==
    /\ run[m].pc = "evaluating"
    /\ run[m].i = Len(run[m].X_val)
    /\ run' = [run EXCEPT ![m].pc = "done",
                          ![m].saved = @ \union {plot_cumulative_earnings(run[m].ticker, m)}]
    /\ UNCHANGED <<data, alt_data, n_steps, num_epochs>>

\* the rest of predict, lines 449-484: visualize_predictions,
\* save_predictions_with_indices, the metrics table and the summary report
PredictReport(m) ==
    /\ run[m].pc = "done"
    /\ run' = [run EXCEPT ![m].pc = "reported",
                          ![m].saved = @ \union {plot_stock_prediction(run[m].ticker, m),
                                                 save_predictions_with_indices(run[m].ticker, m),
                                                 MetricsCsv(run[m].ticker, m),
                                                 SummaryTxt(run[m].ticker, m)}]
    /\ UNCHANGED <<data, alt_data, n_steps, num_epochs>>

Next ==
    \E m \in Models :
        /\ \/ FormatFeature(m)
           \/ Prepare(m)
           \/ TrainPass(m)
           \/ ValPass(m)
           \/ PlotTrainingLoss(m)
           \/ PredictWindow(m)
           \/ Return(m)
           \/ PredictReport(m)
        /\ UNCHANGED <<indVars, auxVars>>

Spec == Init /\ [][Next]_vars

\* some run has a step to take: the state predicate ENABLED <<Next>>_vars
Running == \E m \in Models : MayStart(m) /\ run[m].pc \notin {"reported", "failed"}

\* the numbers of epochs around the first two steps of the schedule
LrEpochs == {1, step_size, step_size + 1, 2 * step_size + 1}

\* runs of both models on the longest table, long enough for the rate to
\* be stepped
InitLr ==
    /\ data = SynthTable([i \in 1..MaxData |-> PatternClose(i)])
    /\ alt_data = data
    /\ n_steps \in 1..MaxSteps
    /\ num_epochs \in LrEpochs
    /\ run = [m \in Models |-> IdleRun]
    /\ IdleInd
    /\ IdleAux

SpecLr == InitLr /\ [][Next]_vars

\* two of the tickers of the script, one a prefix of the other
Tickers == {"MS", "MSFT"}

\* predict is called for the LSTM and for the GRU with the same stock_data
\* and stock_features, each call with a ticker
InitPair ==
    /\ data \in DataTables
    /\ alt_data = data
    /\ n_steps \in 1..MaxSteps
    /\ num_epochs \in 1..MaxEpochs
    /\ \E lt \in Tickers, gt \in Tickers :
          run = [m \in Models |->
                    [IdleRun EXCEPT !.ticker = IF m = "LSTM" THEN lt ELSE gt]]
    /\ IdleInd
    /\ IdleAux

SpecPair == InitPair /\ [][Next]_vars

\* a run is sequential code: it keeps running until it returns or raises.
\* This is WF_vars(Next) with its ENABLED written out as Running.
SpecFair == Spec /\ ([]<>(~Running) \/ []<><<Next>>_vars)

-----------------------------------------------------------------------------
(* model.py run as a script: the loop over the tickers *)

\* what may go wrong with one ticker: get_stock_data finds no file,
\* format_feature raises, predict raises in the LSTM call (too little data
\* included) or in the GRU call, or nothing
Failures == {"missing_file", "format_raises", "lstm_raises", "gru_raises", "none"}

RECURSIVE TickerLists(_)
\* the ticker lists of length n, each ticker given as what goes wrong with it
TickerLists(n) ==
    IF n = 0 THEN {<<>>}
    ELSE {Append(l, f) : l \in TickerLists(n - 1), f \in Failures}

\* an exception of one ticker ends the script
AbortBatch(mn) == [mn EXCEPT !.pc = "done"]

\* except Exception: print, continue
SkipTicker(mn) == [mn EXCEPT !.i = @ + 1, !.stage = "load"]

InitMain ==
    /\ \E n \in 0..MaxTickers :
          main \in {[IdleMain EXCEPT !.pc = "loop", !.tickers = l] : l \in TickerLists(n)}
    /\ batch = IdleBatch
    /\ viz = IdleViz
    /\ ui = IdleUi
    /\ IdleInd
    /\ IdlePipe

\* the loop takes the next ticker: get_stock_data, format_feature
LoadTicker ==
    /\ main.pc = "loop"
    /\ main.stage = "load"
    /\ main.i < Len(main.tickers)
    /\ LET tried == [main EXCEPT !.attempts = Append(@, main.i + 1)]
       IN  main' = IF main.tickers[main.i + 1] \in {"missing_file", "format_raises"}
                   THEN SkipTicker(tried)
                   ELSE [tried EXCEPT !.stage = "lstm"]
    /\ UNCHANGED <<indVars, pipeVars, batch, viz, ui>>

\* lstm_metrics = predict(..., model_type='LSTM')
PredictLstm ==
    /\ main.pc = "loop"
    /\ main.stage = "lstm"
    /\ main' = IF main.tickers[main.i + 1] = "lstm_raises"
               THEN SkipTicker(main)
               ELSE [main EXCEPT !.all_lstm_metrics = @ \union {main.i + 1},
                                 !.stage = "gru"]
    /\ UNCHANGED <<indVars, pipeVars, batch, viz, ui>>

\* gru_metrics = predict(..., model_type='GRU')
PredictGru ==
    /\ main.pc = "loop"
    /\ main.stage = "gru"
    /\ main' = IF main.tickers[main.i + 1] = "gru_raises"
               THEN SkipTicker(main)
               ELSE [main EXCEPT !.all_gru_metrics = @ \union {main.i + 1},
                                 !.i = @ + 1, !.stage = "load"]
    /\ UNCHANGED <<indVars, pipeVars, batch, viz, ui>>

\* the list is exhausted
LoopEnd ==
    /\ main.pc = "loop"
    /\ main.stage = "load"
    /\ main.i = Len(main.tickers)
    /\ main' = [main EXCEPT !.pc = "compare"]
    /\ UNCHANGED <<indVars, pipeVars, batch, viz, ui>>

\* plot_accuracy_comparison(all_lstm_metrics, all_gru_metrics, save_dir)
PlotAccuracyComparison ==
    /\ main.pc = "compare"
    /\ main' = [main EXCEPT !.compared = @ + 1, !.pc = "done"]
    /\ UNCHANGED <<indVars, pipeVars, batch, viz, ui>>

NextMain ==
    \/ LoadTicker
    \/ PredictLstm
    \/ PredictGru
    \/ LoopEnd
    \/ PlotAccuracyComparison

SpecMain == InitMain /\ [][NextMain]_vars

\* the script is a sequential program: it keeps running until it ends
SpecMainFair == SpecMain /\ WF_vars(NextMain)

-----------------------------------------------------------------------------
(* model.visualize_predictions: prices and metrics in SC units per 1.0 *)

RECURSIVE FSum(_)
\* np.sum of a sequence of cells
FSum(s) == IF s = <<>> THEN Num(0) ELSE FAdd(s[1], FSum(Tail(s)))

\* np.mean of a sequence of cells: nan for no cell
FMean(s) ==
    LET t == FSum(s)
    IN  IF s = <<>> THEN NaN
        ELSE IF IsFinite(t) THEN Num(Val(t) \div Len(s))
        ELSE t

\* np.sqrt of a mean of squares given in SC * SC units
FSqrt(a) == IF IsFinite(a) THEN Num(ISqrt(Val(a))) ELSE a

\* data['Close'].loc[test_indices].values
actual_prices(d, test_indices) ==
    [k \in 1..Len(test_indices) |->
        FScale(d[CHOOSE r \in 1..Len(d) : d[r].Date = test_indices[k]].Close, SC)] \o <<>>

\* predicted_prices - actual_prices
Errors(predicted, actual) ==
    [k \in 1..Len(predicted) |-> FSub(predicted[k], actual[k])] \o <<>>

\* 1 - mean(|error|) / mean(actual): the ratio of the means
AccuracyOfMeans(predicted, actual) ==
    FSub(Num(SC),
         FDiv(FMean([k \in 1..Len(predicted) |->
                        FAbs(FSub(predicted[k], actual[k]))] \o <<>>),
              FMean(actual)))

\* accuracy = 1 - np.mean(np.abs(predicted_prices - actual_prices) / actual_prices)
Accuracy(predicted, actual) ==
    FSub(Num(SC),
         FMean([k \in 1..Len(predicted) |->
                   FDiv(FAbs(FSub(predicted[k], actual[k])), actual[k])] \o <<>>))

\* the metrics dict of visualize_predictions
visualize_predictions(d, test_indices, predictions) ==
    LET actual == actual_prices(d, test_indices)
        err == Errors(predictions, actual)
        mse == FMean([k \in 1..Len(err) |-> FMul(err[k], err[k])] \o <<>>)
    IN  [rmse |-> FSqrt(mse),
         mae |-> FMean([k \in 1..Len(err) |-> FAbs(err[k])] \o <<>>),
         accuracy |-> Accuracy(predictions, actual)]

\* the table of closes 100, 101, 102, ... and the same with a close of 0
CloseTables ==
    {[r \in 1..MaxRecords |-> [Date |-> 60 + r, Close |-> Num(99 + r)]] \o <<>>,
     [r \in 1..MaxRecords |-> [Date |-> 60 + r,
                               Close |-> Num(IF r = 2 THEN 0 ELSE 99 + r)]] \o <<>>}

RECURSIVE DateLists(_, _)
\* the increasing lists of dates among first .. last
DateLists(first, last) ==
    IF first > last THEN {<<>>}
    ELSE DateLists(first + 1, last)
           \union {<<first>> \o l : l \in DateLists(first + 1, last)}

\* the price predicted for a date whose close is c: the close itself, or
\* one off by 0.5, by 1 or by 10
PredictedFor(c) == {Num(Val(c) * SC), Num(Val(c) * SC - 50), Num((Val(c) + 1) * SC),
                    Num((Val(c) + 10) * SC)}

RECURSIVE PredictionLists(_, _)
PredictionLists(d, dates) ==
    IF dates = <<>> THEN {<<>>}
    ELSE {<<p>> \o l :
            p \in PredictedFor(d[CHOOSE r \in 1..Len(d) : d[r].Date = dates[1]].Close),
            l \in PredictionLists(d, Tail(dates))}

InitViz ==
    /\ \E d \in CloseTables : \E dates \in DateLists(61, 60 + MaxRecords) :
          \E preds \in PredictionLists(d, dates) :
             viz = [IdleViz EXCEPT !.pc = "called", !.data = d, !.test_indices = dates,
                                   !.predictions = preds,
                                   !.given = [data |-> d, test_indices |-> dates,
                                              predictions |-> preds]]
    /\ batch = IdleBatch
    /\ main = IdleMain
    /\ ui = IdleUi
    /\ IdleInd
    /\ IdlePipe

\* visualize_predictions computes the metrics, plots and returns
VisualizePredictions ==
    /\ viz.pc = "called"
    /\ viz' = [viz EXCEPT !.metrics = visualize_predictions(viz.data, viz.test_indices,
                                                            viz.predictions),
                          !.saved = @ \union {"pic/predictions"},
                          !.pc = "returned"]
    /\ UNCHANGED <<indVars, pipeVars, batch, main, ui>>

NextViz == VisualizePredictions

SpecViz == InitViz /\ [][NextViz]_vars

-----------------------------------------------------------------------------
(* gradio_interface.process_and_predict *)

\* Python's None and a value, named by the expression that gives it
None == [none |-> TRUE, v |-> ""]
Some(v) == [none |-> FALSE, v |-> v]

\* [None] * n
Nones(n) == [k \in 1..n |-> None] \o <<>>

\* the values temp_csv_path may have: None, the empty string, a path
CsvPaths == {"None", "", "tmp/gradio/ticker/AAPL.csv", "tmp/gradio/ticker/MSFT.csv"}

\* not temp_csv_path
Falsy(path) == path \in {"None", ""}

\* os.path.basename(temp_csv_path).split('.')[0]
TickerOf(path) == IF path = "tmp/gradio/ticker/AAPL.csv" THEN "AAPL" ELSE "MSFT"

\* the statements of the try block that may raise, in order
Stages == <<"read_csv", "format_feature", "predict", "process_stock", "Image.open",
            "read_transactions">>

\* the call in which an exception is raised, if any
Faults == {Stages[k] : k \in 1..Len(Stages)} \union {"none"}

\* values of an epochs slider (minimum 100, default 500)
EpochChoices == {100, 500}

\* the exception leaves process_and_predict
Propagate(u) == [u EXCEPT !.pc = "returned", !.raised = TRUE]

\* except Exception as e: print, return [None] * 9
CatchAll(u) == [u EXCEPT !.pc = "returned", !.outputs = Nones(9)]

\* the statement named stage is executed: it raises or control moves on
Step(stage, next) ==
    /\ ui.pc = stage
    /\ ui' = IF ui.fault = stage THEN CatchAll(ui) ELSE [ui EXCEPT !.pc = next]
    /\ UNCHANGED <<indVars, pipeVars, batch, main, viz>>

InitUi ==
    /\ ui \in {[IdleUi EXCEPT !.pc = "called", !.temp_csv_path = path,
                               !.model_type = m, !.fault = f,
                               !.lstm_epochs = le, !.gru_epochs = ge] :
                 path \in CsvPaths, m \in Models, f \in Faults,
                 le \in EpochChoices, ge \in EpochChoices}
    /\ batch = IdleBatch
    /\ main = IdleMain
    /\ viz = IdleViz
    /\ IdleInd
    /\ IdlePipe

\* if not temp_csv_path: return [None] * 9
Enter ==
    /\ ui.pc = "called"
    /\ ui' = IF Falsy(ui.temp_csv_path)
             THEN [ui EXCEPT !.pc = "returned", !.outputs = Nones(9)]
             ELSE [ui EXCEPT !.pc = "read_csv", !.ticker = TickerOf(ui.temp_csv_path)]
    /\ UNCHANGED <<indVars, pipeVars, batch, main, viz>>

\* stock_data = pd.read_csv(temp_csv_path)
ReadCsv == Step("read_csv", "format_feature")

\* stock_features = format_feature(stock_data), then the choice of the
\* hyperparameters of the model type
UiFormatFeature ==
    /\ ui.pc = "format_feature"
    /\ ui' = IF ui.fault = "format_feature" THEN CatchAll(ui)
             ELSE [ui EXCEPT !.pc = "predict",
                             !.epochs = IF ui.model_type = "LSTM" THEN ui.lstm_epochs
                                        ELSE ui.gru_epochs]
    /\ UNCHANGED <<indVars, pipeVars, batch, main, viz>>

\* metrics = predict(...)
UiPredict == Step("predict", "process_stock")

\* trading_results = process_stock(...)
UiProcessStock == Step("process_stock", "Image.open")

\* the four Image.open calls
OpenImages == Step("Image.open", "read_transactions")

\* transactions_df = pd.read_csv(...) and the return of the nine results
ReturnResults ==
    /\ ui.pc = "read_transactions"
    /\ ui' = IF ui.fault = "read_transactions" THEN CatchAll(ui)
             ELSE [ui EXCEPT !.pc = "returned",
                             !.outputs =
                                <<Some("[prediction_plot, loss_plot, earnings_plot, trades_plot]"),
                                  Some("metrics['accuracy'] * 100"),
                                  Some("metrics['rmse']"),
                                  Some("metrics['mae']"),
                                  Some("trading_results['total_gains']"),
                                  Some("trading_results['investment_return']"),
                                  Some("trading_results['trades_buy']"),
                                  Some("trading_results['trades_sell']"),
                                  Some("transactions_df")>>]
    /\ UNCHANGED <<indVars, pipeVars, batch, main, viz>>

NextUi ==
    \/ Enter
    \/ ReadCsv
    \/ UiFormatFeature
    \/ UiPredict
    \/ UiProcessStock
    \/ OpenImages
    \/ ReturnResults

SpecUi == InitUi /\ [][NextUi]_vars

-----------------------------------------------------------------------------
(* Properties of the indicator engine *)

Rows(t) == {t[i] : i \in 1..Len(t)}

\* the bars of t dated before date
Before(t, date) == SelectSeq(t, LAMBDA row : row.Date < date)

\* a change from prev to cur of more than 30% in absolute value
Exceeds30(prev, cur) == 10 * Abs(cur - prev) > 3 * Abs(prev)

\* C1: no lookahead.  When two raw tables agree on every bar dated before t
\* and both outputs keep the row dated t, the two rows have the same value in
\* every indicator column (the lagged indicators, the *_yes columns,
\* Prev_Close and Year/Month/Day).
C1_NoLookahead ==
    ipc.alt = "done" =>
        \A r \in Rows(table) : \A q \in Rows(alt_table) :
            (r.Date = q.Date /\ Before(raw, r.Date) = Before(alt_raw, r.Date))
                => \A c \in IndicatorColumns : r[c] = q[c]

\* C1 witness: both outputs keep a row of a date from which on the raw bars
\* differ -- the bar of that very date is another one, and so is the close
\* the output row carries.
C1_Witness ==
    /\ ipc.alt = "done"
    /\ \E r \in Rows(table) : \E q \in Rows(alt_table) :
          /\ r.Date = q.Date
          /\ Before(raw, r.Date) = Before(alt_raw, r.Date)
          /\ r.Close # q.Close
          /\ \E i \in 1..Len(raw) : raw[i].Date = r.Date /\ alt_raw[i] # raw[i]

\* the last row before row i whose change against the previous raw close
\* does not exceed 30% (row 1 has no previous close)
RECURSIVE LastWithin30(_, _)
LastWithin30(t, i) ==
    IF i <= 1 THEN 1
    ELSE IF ~Exceeds30(Val(t[i-1].Close), Val(t[i].Close)) THEN i
    ELSE LastWithin30(t, i - 1)

\* C9: outlier clamp.  After the call every row whose change against the
\* previous raw close exceeds 30% holds the OHLCV values of the nearest
\* earlier row that was not replaced, and every row whose change is within
\* 30% (and the first row) holds its own values.
C9_OutlierClamp ==
    ipc.main = "done" =>
        \A i \in 1..Len(raw) : \A c \in OHLCV :
            df_stock[i][c] = raw[LastWithin30(raw, i)][c]

\* C10 as claimed: no change between consecutive rows of the cleaned Close
\* series exceeds 30% in absolute value.
C10_NoJumpLeft ==
    ipc.main = "done" =>
        \A i \in 2..Len(df_stock) :
            ~Exceeds30(Val(df_stock[i-1].Close), Val(df_stock[i].Close))

\* C10, amended: the change between two consecutive rows of the cleaned Close
\* series does not exceed 30% when the earlier row's cleaned close is its own
\* raw close.
C10_NoJumpAfterKeptRow ==
    ipc.main = "done" =>
        \A i \in 2..Len(df_stock) :
            df_stock[i-1].Close = raw[i-1].Close
                => ~Exceeds30(Val(df_stock[i-1].Close), Val(df_stock[i].Close))

\* C10 witness: a row that moved more than 30% against a kept row was
\* replaced by that row's close.
C10_Witness ==
    /\ ipc.main = "done"
    /\ \E i \in 2..Len(df_stock) :
          /\ df_stock[i-1].Close = raw[i-1].Close
          /\ Exceeds30(Val(raw[i-1].Close), Val(raw[i].Close))
          /\ df_stock[i].Close = raw[i-1].Close

-----------------------------------------------------------------------------
(* Properties of compute_indicators as a call, and of process_all *)

\* C11: compute_indicators is a pure transform.  After the call the
\* caller's table is what it was at the call (columns, OHLCV values, missing
\* cells, index), and calls on identical tables return identical tables.
C11_PureTransform ==
    /\ ipc.main = "done" => df_stock = raw
    /\ (ipc.alt = "done" /\ alt_raw = raw) => alt_table = table

\* the table process_all hands to compute_indicators for symbol i (none
\* when the request raised or returned no rows)
Handed(i) ==
    IF batch.symbols[i].kind = "table"
    THEN DateFilter(batch.symbols[i].df, from_date, to_date)
    ELSE <<>>

\* C12: an empty table, or a table without a Close column, is a no-data
\* outcome that is not fatal: the result has no rows and no indicator, the
\* symbol is recorded as having no data and not as an error, no CSV file is
\* written for it, and the loop goes on to every later symbol.
C12_NoDataNonFatal ==
    /\ Len(batch.results) = batch.i
    /\ batch.pc = "done" => batch.i = Len(batch.symbols)
    /\ \A i \in 1..Len(batch.results) :
          (/\ batch.symbols[i].kind = "table"
           /\ (Handed(i) = <<>> \/ "Close" \notin DOMAIN Handed(i)[1]))
              => /\ batch.results[i].outcome = "nodata"
                 /\ batch.results[i].df = <<>>
                 /\ i \notin batch.csv

\* C12 witness: process_all has returned after a symbol whose rows have no
\* Close, then a symbol whose rows all lie after to_date, then a symbol
\* whose CSV file was written.
C12_Witness ==
    /\ batch.pc = "done"
    /\ Len(batch.symbols) = 3
    /\ batch.symbols[1].df # <<>>
    /\ "Close" \notin DOMAIN batch.symbols[1].df[1]
    /\ batch.symbols[2].df # <<>>
    /\ Handed(2) = <<>>
    /\ batch.results[1].outcome = "nodata"
    /\ batch.results[2].outcome = "nodata"
    /\ batch.csv = {3}

-----------------------------------------------------------------------------
(* Properties of the training runs *)

\* the position (from 1) of the row of t that is dated date
RowOf(t, date) == CHOOSE i \in 1..Len(t) : t[i].Date = date

\* the run has executed lines 130-134 (the split)
HasSplit(r) == r.pc \notin {"idle", "formatted"}

\* the run has executed lines 130-157 (split, scalers, windows)
HasWindows(r) == HasSplit(r) /\ r.error # "ValueError"

\* the dates of the rows a set of examples is built from
DatesUsed(X_seq, y_seq) ==
    {X_seq[w][s].Date : w \in 1..Len(X_seq), s \in 1..n_steps}
        \union {y_seq[w].Date : w \in 1..Len(y_seq)}

\* C2: the record of validation window i is dated at the row whose target
\* the window is paired with, and its price is built on the close of the
\* day before that date: predicted return, date and base close refer to
\* the same day.
C2_RecordDayAligned ==
    \A m \in Models : \A j \in 1..Len(run[m].test_indices) :
        LET d == InputOf(m)
            t == run[m].y_val[j].Date
            predicted_return == Num(Val(run[m].predict_percentages[j]) \div 100)
        IN  /\ run[m].test_indices[j] = t
            /\ run[m].predictions[j] =
                   FMul(FAdd(Num(SC), predicted_return), d[RowOf(d, t) - 1].Close)

\* C3: the actual return of every record is 100 times the close-to-close
\* return of the date stored in the record.
C3_ActualReturnOfRecordDate ==
    \A m \in Models : \A j \in 1..Len(run[m].test_indices) :
        LET d == InputOf(m)
            p == RowOf(d, run[m].test_indices[j])
        IN  run[m].actual_percentages[j] =
                FScale(PctChange(d[p - 1].Close, d[p].Close), 100)

\* C13: the feature frame has exactly 23 columns, each a distinct named
\* column, so every row of X and every row of a training window is 23 wide.
C13_FeatureWidth ==
    \A m \in Models :
        run[m].pc # "idle" =>
            /\ Cardinality({features[j] : j \in 1..Len(features)}) = Len(features)
            /\ \A i \in 1..Len(run[m].X) : Len(run[m].X[i].v) = 23
            /\ \A w \in 1..Len(run[m].X_train) : Len(run[m].X_train[w][1].v) = 23

\* C14: X and y have the index of the table without its first row, and y
\* at each date t is (Close[t] - Close[t-1]) / Close[t-1] with the previous
\* close taken from the table row right before t, the first retained row
\* included.
C14_FormatFeature ==
    \A m \in Models :
        LET d == InputOf(m)
            X == run[m].X
            y == run[m].y
        IN  run[m].pc # "idle" =>
                /\ Len(X) = Len(d) - 1
                /\ Len(y) = Len(d) - 1
                /\ \A i \in 1..Len(y) :
                      /\ X[i].Date = d[i + 1].Date
                      /\ y[i].Date = d[i + 1].Date
                      /\ y[i].v = FDiv(FSub(d[i + 1].Close, d[i].Close), d[i].Close)

\* C14 witness: a formatted table of at least three rows whose first two
\* closes differ, so that the first retained row has a non-zero target.
C14_Witness ==
    \E m \in Models :
        /\ run[m].pc = "formatted"
        /\ Len(run[m].y) >= 2
        /\ InputOf(m)[1].Close # InputOf(m)[2].Close
        /\ run[m].y[1].v # Num(0)

\* the scaled cell x of the raw cell v is (v - lo) / (hi - lo) up to the
\* rounding of the arithmetic, or v - lo for a train column of range 0
AffineCell(scaler, units, j, v, x) ==
    LET lo == scaler.data_min_[j]
        hi == scaler.data_max_[j]
    IN  IF hi = lo THEN x * units[j] = (v - lo) * SC
        ELSE Abs(x * (hi - lo) - (v - lo) * SC) * SC < (hi - lo) * (Abs(v - lo) + SC)

\* every cell of scaled is the affine image of the cell of part it was made of
AffinePart(scaler, units, part, scaled) ==
    /\ Len(scaled) = Len(part)
    /\ \A i \in 1..Len(part) : \A j \in 1..Len(part[i].v) :
          AffineCell(scaler, units, j, Val(part[i].v[j]), Val(scaled[i].v[j]))

\* data_min_ and data_max_ are the least and the greatest cell of each
\* column of the train part
FittedOn(scaler, part) ==
    \A j \in 1..Len(part[1].v) :
        /\ \A i \in 1..Len(part) :
              scaler.data_min_[j] <= Val(part[i].v[j]) /\ Val(part[i].v[j]) <= scaler.data_max_[j]
        /\ \E i \in 1..Len(part) : Val(part[i].v[j]) = scaler.data_min_[j]
        /\ \E i \in 1..Len(part) : Val(part[i].v[j]) = scaler.data_max_[j]

\* inverse_transform gives v back from its scaled value x up to the
\* rounding of the arithmetic
RoundTripClose(scaler, v, x) ==
    LET back == Val(InverseTransform(scaler, Num(x)))
    IN  /\ scaler.scale_[1] > 0
        /\ back <= v
        /\ (v - back) * scaler.scale_[1] < SC + scaler.scale_[1]

C16_InsufficientData ==
    \A m \in Models :
        LET r == run[m]
        IN  (HasSplit(r) /\ (Len(r.X_train_raw) <= n_steps \/ Len(r.X_val_raw) <= n_steps))
                => /\ r.pc = "failed"
                   /\ r.error = "InsufficientDataError"
                   /\ r.train_losses = <<>>
                   /\ r.saved = {}

\* the two runs were given inputs of the same length that agree on the rows
\* before the split index
AgreeOnTrainRows ==
    LET a == run["LSTM"]
        b == run["GRU"]
    IN  /\ HasWindows(a)
        /\ HasWindows(b)
        /\ Len(a.X) = Len(b.X)
        /\ \A i \in 1..a.split_idx : a.X[i] = b.X[i] /\ a.y[i] = b.y[i]

\* C4: scaler isolation.  Two runs whose inputs agree on the rows before the
\* split index have the same scaler parameters, the same training windows
\* and the same training targets, whatever the later rows are.
C4_ScalerIsolation ==
    AgreeOnTrainRows =>
        /\ run["LSTM"].scaler_X = run["GRU"].scaler_X
        /\ run["LSTM"].scaler_y = run["GRU"].scaler_y
        /\ run["LSTM"].X_train = run["GRU"].X_train
        /\ run["LSTM"].y_train = run["GRU"].y_train

\* C4 witness: the two inputs agree before the split index, there are
\* training windows, and a validation row of the second input has a target
\* above every training target and features that differ from the first
\* input's.
C4_Witness ==
    /\ AgreeOnTrainRows
    /\ run["LSTM"].X_train # <<>>
    /\ \E i \in (run["GRU"].split_idx + 1)..Len(run["GRU"].y) :
          /\ Val(run["GRU"].y[i].v) > run["GRU"].scaler_y.data_max_[1]
          /\ run["GRU"].y[i] # run["LSTM"].y[i]
    /\ \E i \in (run["GRU"].split_idx + 1)..Len(run["GRU"].X) :
          run["GRU"].X[i] # run["LSTM"].X[i]

\* C5: no window crosses the boundary.  Every training example is built
\* from rows before the split index only, every validation example from
\* rows at or after it, and no row serves both.
C5_NoWindowCrossesBoundary ==
    \A m \in Models :
        LET r == run[m]
            train == DatesUsed(r.X_train, r.y_train)
            val == DatesUsed(r.X_val, r.y_val)
        IN  HasWindows(r) =>
                /\ \A t \in train : RowOf(r.X, t) - 1 \in 0..(r.split_idx - 1)
                /\ \A t \in val : RowOf(r.X, t) - 1 \in r.split_idx..(Len(r.X) - 1)
                /\ train \intersect val = {}

\* C5 witness: a run with training windows and validation windows, whose
\* last training target is the row right before the split index and whose
\* first validation window starts at it.
C5_Witness ==
    \E m \in Models :
        LET r == run[m]
        IN  /\ HasWindows(r)
            /\ r.X_train # <<>>
            /\ r.X_val # <<>>
            /\ r.y_train[Len(r.y_train)].Date = r.X[r.split_idx].Date
            /\ r.X_val[1][1].Date = r.X[r.split_idx + 1].Date

\* what C6 says create_sequences returns for feats, target and n
IsWindowing(X_seq, y_seq, feats, target, n) ==
    /\ Len(X_seq) = (IF n < Len(feats) THEN Len(feats) - n ELSE 0)
    /\ Len(y_seq) = Len(X_seq)
    /\ \A i \in 0..(Len(X_seq) - 1) :
          /\ X_seq[i + 1] = [s \in 1..n |-> feats[i + s]]
          /\ y_seq[i + 1] = target[i + n + 1]

\* C6: create_sequences returns, for each i from 0 to len(features) -
\* n_steps - 1 in order, the window features[i .. i+n_steps-1] with
\* target[i+n_steps]: len(features) - n_steps examples when n_steps <
\* len(features), none otherwise, and then without raising: a run whose
\* validation part is too short for a window still gets past line 157.
C6_CreateSequences ==
    \A m \in Models :
        LET r == run[m]
        IN  HasWindows(r) =>
                /\ IsWindowing(r.X_train, r.y_train,
                               r.X_train_scaled, r.y_train_scaled, n_steps)
                /\ IsWindowing(r.X_val, r.y_val,
                               r.X_val_scaled, r.y_val_scaled, n_steps)
                /\ (r.X_train # <<>> => r.error \notin {"ValueError", "IndexError"})

\* C6 witness: a run with at least two training examples and a validation
\* part no longer than n_steps, which went on to the epoch loop.
C6_Witness ==
    \E m \in Models :
        LET r == run[m]
        IN  /\ HasWindows(r)
            /\ Len(r.X_train) >= 2
            /\ Len(r.X_val_scaled) >= 1
            /\ Len(r.X_val_scaled) <= n_steps
            /\ r.X_val = <<>>
            /\ r.train_losses # <<>>

\* C7: the split index is floor(0.8 * N); the rows before it are the train
\* partition and the rows from it on the validation partition, of X and of
\* y; the partitions are disjoint, cover every row, and every train row is
\* dated before every validation row; two runs on the same (X, y) have the
\* same split index and the same scaler parameters.
C7_SplitIndex ==
    /\ \A m \in Models :
          LET r == run[m]
              N == Len(r.X)
              k == r.split_idx
          IN  HasSplit(r) =>
                  /\ 10 * k <= 8 * N
                  /\ 8 * N < 10 * (k + 1)
                  /\ Len(r.X_train_raw) = k
                  /\ Len(r.y_train_raw) = k
                  /\ r.X_train_raw \o r.X_val_raw = r.X
                  /\ r.y_train_raw \o r.y_val_raw = r.y
                  /\ \A i \in 1..Len(r.X_train_raw) : \A j \in 1..Len(r.X_val_raw) :
                        r.X_train_raw[i].Date < r.X_val_raw[j].Date
    /\ (/\ HasSplit(run["LSTM"])
        /\ HasSplit(run["GRU"])
        /\ run["LSTM"].X = run["GRU"].X
        /\ run["LSTM"].y = run["GRU"].y)
           => /\ run["LSTM"].split_idx = run["GRU"].split_idx
              /\ run["LSTM"].scaler_X = run["GRU"].scaler_X
              /\ run["LSTM"].scaler_y = run["GRU"].scaler_y

\* C7 witness: both runs have split the same (X, y), 0.8 * N is not an
\* integer, and both partitions have rows.
C7_Witness ==
    /\ HasWindows(run["LSTM"])
    /\ HasWindows(run["GRU"])
    /\ run["LSTM"].X = run["GRU"].X
    /\ run["LSTM"].y = run["GRU"].y
    /\ (8 * Len(run["GRU"].X)) % 10 # 0
    /\ run["GRU"].X_train_raw # <<>>
    /\ Len(run["GRU"].X_val_raw) >= 2

\* C8: end-to-end date bound.  A run whose validation partition has more
\* than n_steps rows does not fail, and returns a non-empty set of records
\* whose dates are strictly increasing and lie between the date of row
\* split_idx + n_steps of the data table and its last date.
C8_DateBound ==
    \A m \in Models :
        LET r == run[m]
            d == InputOf(m)
            ti == r.test_indices
        IN  (HasSplit(r) /\ Len(r.X_val_raw) > n_steps) =>
                /\ r.pc # "failed"
                /\ r.pc = "done" => ti # <<>>
                /\ \A j \in 1..Len(ti) :
                      /\ d[r.split_idx + n_steps + 1].Date <= ti[j]
                      /\ ti[j] <= d[Len(d)].Date
                      /\ j > 1 => ti[j - 1] < ti[j]

\* C8 witness: a run has returned at least two records, the first dated at
\* row split_idx + n_steps of the data table.
C8_Witness ==
    \E m \in Models :
        /\ run[m].pc = "done"
        /\ Len(run[m].X_val_raw) > n_steps
        /\ Len(run[m].test_indices) >= 2
        /\ run[m].test_indices[1] =
               InputOf(m)[run[m].split_idx + n_steps + 1].Date

-----------------------------------------------------------------------------
(* Properties of the orchestrator *)

\* the tickers 1 .. n in list order
UpTo(n) == [k \in 1..n |-> k] \o <<>>

\* the tickers among the first n with none of the failures fs
Without(fs, n) == {k \in 1..n : main.tickers[k] \notin fs}

BatchIsolated ==
    LET n == Len(main.tickers)
        started == IF main.stage = "load" THEN main.i ELSE main.i + 1
    IN  /\ main.attempts = UpTo(started)
        /\ main.pc \in {"compare", "done"} => main.attempts = UpTo(n)
        /\ main.compared = (IF main.pc = "done" THEN 1 ELSE 0)
        /\ main.pc = "done" =>
              /\ main.all_lstm_metrics =
                    Without({"missing_file", "format_raises", "lstm_raises"}, n)
              /\ main.all_gru_metrics = Without(Failures \ {"none"}, n)

\* C17: whatever the list and whatever fails for which ticker, every
\* ticker is attempted exactly once in list order, a failure of one ticker
\* leaves the later ones to be processed, and the accuracy comparison runs,
\* once, after the last ticker.
C17_BatchIsolation ==
    /\ []BatchIsolated
    /\ <>(main.pc = "done" /\ main.compared = 1 /\ main.attempts = UpTo(Len(main.tickers)))

\* C17 witness: a list of three whose first ticker has no data file and
\* whose second fails in predict; the third is processed and the comparison
\* has run.
C17_Witness ==
    /\ main.pc = "done"
    /\ main.tickers = <<"missing_file", "lstm_raises", "none">>
    /\ main.attempts = <<1, 2, 3>>
    /\ main.all_lstm_metrics = {3}
    /\ main.all_gru_metrics = {3}
    /\ main.compared = 1

-----------------------------------------------------------------------------
(* Properties of the metrics *)

\* the k-th actual price and the k-th absolute error, in SC units
ActualAt(k) == SC * Val(viz.data[RowOf(viz.data, viz.test_indices[k])].Close)
AbsErrAt(k) == Abs(Val(viz.predictions[k]) - ActualAt(k))

RECURSIVE SumOver(_, _)
\* f[1] + ... + f[n]
SumOver(f, n) == IF n = 0 THEN 0 ELSE f[n] + SumOver(f, n - 1)

\* C18: over the record dates rmse is the square root of the mean squared
\* error, mae the mean absolute error and accuracy 1 minus the mean of
\* |error| / actual; equal predicted and actual prices (actual non-zero)
\* give rmse 0, mae 0 and accuracy 1; the prediction lists and the data
\* table are what they were before the call.
C18_Metrics ==
    viz.pc = "returned" =>
        LET n == Len(viz.test_indices)
            sq == SumOver([k \in 1..n |-> AbsErrAt(k) * AbsErrAt(k)], n)
            ab == SumOver([k \in 1..n |-> AbsErrAt(k)], n)
            nonzero == \A k \in 1..n : ActualAt(k) # 0
            m == viz.metrics
        IN  /\ viz.data = viz.given.data
            /\ viz.test_indices = viz.given.test_indices
            /\ viz.predictions = viz.given.predictions
            /\ n > 0 =>
                  /\ IsFinite(m.rmse) /\ IsFinite(m.mae)
                  /\ Val(m.rmse) >= 0
                  /\ Val(m.rmse) * Val(m.rmse) <= sq \div n
                  /\ sq \div n < (Val(m.rmse) + 1) * (Val(m.rmse) + 1)
                  /\ Val(m.mae) = ab \div n
            /\ (n > 0 /\ nonzero) =>
                  /\ IsFinite(m.accuracy)
                  /\ SC - Val(m.accuracy) =
                        SumOver([k \in 1..n |-> (AbsErrAt(k) * SC) \div ActualAt(k)], n) \div n
            /\ (n > 0 /\ nonzero /\ \A k \in 1..n : AbsErrAt(k) = 0) =>
                  m = [rmse |-> Num(0), mae |-> Num(0), accuracy |-> Num(SC)]

\* C18 witness: the metrics of predictions 100, 101, 102 for closes 100,
\* 101, 102 have been returned.
C18_Witness ==
    /\ viz.pc = "returned"
    /\ viz.predictions = <<Num(100 * SC), Num(101 * SC), Num(102 * SC)>>
    /\ \A k \in 1..3 : ActualAt(k) = Val(viz.predictions[k])
    /\ viz.metrics = [rmse |-> Num(0), mae |-> Num(0), accuracy |-> Num(SC)]

-----------------------------------------------------------------------------
(* Properties of the front end *)

\* C19: process_and_predict returns exactly 9 outputs: 9 values when the
\* path is given and nothing raises, 9 nulls when the path is missing or a
\* call of the try block raises; no exception leaves it.
C19_NineOutputs ==
    /\ ~ui.raised
    /\ ui.pc = "returned" =>
          /\ Len(ui.outputs) = 9
          /\ IF Falsy(ui.temp_csv_path) \/ ui.fault # "none"
             THEN \A k \in 1..9 : ui.outputs[k] = None
             ELSE /\ \A k \in 1..9 : ~ui.outputs[k].none
                  /\ \A j, k \in 1..9 : j # k => ui.outputs[j] # ui.outputs[k]

\* C19 witness: the trading simulator raised and nine nulls were returned.
C19_Witness ==
    /\ ui.pc = "returned"
    /\ ~Falsy(ui.temp_csv_path)
    /\ ui.fault = "process_stock"
    /\ ui.outputs = Nones(9)

-----------------------------------------------------------------------------
(* Properties of the run as a state machine *)

\* the epochs 0 .. n-1 in order, as the loss lists record them
EpochsUpTo(n) == [k \in 1..n |-> k - 1] \o <<>>

\* the run is in the middle of an epoch: its training pass is done, its
\* validation pass is not (or has raised)
MidEpoch(r) == r.pc = "validating" \/ r.error = "ZeroDivisionError"

RunShape(r) ==
    /\ r.pc \in {"idle", "formatted", "training", "validating", "evaluating", "done",
                "reported", "failed"}
    /\ r.epoch <= num_epochs
    /\ r.val_losses = EpochsUpTo(r.epoch)
    /\ r.train_losses = EpochsUpTo(IF MidEpoch(r) THEN r.epoch + 1 ELSE r.epoch)
    /\ r.pc \in {"idle", "formatted"} => r.epoch = 0
    /\ r.pc \in {"evaluating", "done", "reported"} =>
          /\ r.epoch = num_epochs
          /\ Len(r.train_losses) = num_epochs
          /\ Len(r.val_losses) = num_epochs
    /\ r.pc \notin {"evaluating", "done", "reported"} =>
          /\ r.i = 0
          /\ r.predictions = <<>>
          /\ r.test_indices = <<>>
          /\ r.predict_percentages = <<>>
          /\ r.actual_percentages = <<>>

\* the steps a run may take, with what each does to the loss lists
RunStep(r, q) ==
    \/ q = r
    \/ r.pc = "idle" /\ q.pc = "formatted"
    \/ r.pc = "formatted" /\ q.pc \in {"training", "failed"} /\ q.train_losses = <<>>
    \/ /\ r.pc = "training" /\ q.pc = "validating"
       /\ Len(q.train_losses) = Len(r.train_losses) + 1
       /\ q.val_losses = r.val_losses
       /\ q.epoch = r.epoch
    \/ /\ r.pc = "validating" /\ q.pc = "training"
       /\ q.train_losses = r.train_losses
       /\ Len(q.val_losses) = Len(r.val_losses) + 1
       /\ q.epoch = r.epoch + 1
    \/ /\ r.pc = "validating" /\ q.pc = "failed"
       /\ q.train_losses = r.train_losses /\ q.val_losses = r.val_losses
    \/ /\ r.pc = "training" /\ q.pc = "evaluating"
       /\ r.epoch = num_epochs
       /\ q.train_losses = r.train_losses /\ q.val_losses = r.val_losses
    \/ /\ r.pc = "evaluating" /\ q.pc \in {"evaluating", "done"}
       /\ q.train_losses = r.train_losses /\ q.val_losses = r.val_losses
    \/ /\ r.pc = "done" /\ q.pc = "reported"
       /\ q.train_losses = r.train_losses /\ q.val_losses = r.val_losses
       /\ q.predictions = r.predictions

\* C20: a run goes Init -> Training(epoch 1..E) -> Evaluating -> Done in
\* that order and comes to an end; in each epoch the training pass comes
\* before the validation pass, each of the two loss lists grows by one
\* entry per epoch and both have E entries when evaluation starts, and no
\* prediction record is made before epoch E has finished.
C20_RunStateMachine ==
    /\ [](\A m \in Models : RunShape(run[m]))
    /\ [][\A m \in Models : RunStep(run[m], run'[m])]_vars
    /\ \A m \in Models : <>(run[m].pc \in {"done", "failed"})
    /\ \A m \in Models : (run[m].pc = "validating" /\ run[m].X_val # <<>>) ~> run[m].pc = "done"

\* C20 witness: a run of MaxEpochs epochs has returned with its records.
C20_Witness ==
    \E m \in Models :
        /\ run[m].pc = "done"
        /\ num_epochs = MaxEpochs
        /\ Len(run[m].train_losses) = MaxEpochs
        /\ Len(run[m].val_losses) = MaxEpochs
        /\ run[m].predictions # <<>>
        /\ run[m].saved = {plot_training_loss(run[m].ticker, m),
                           plot_cumulative_earnings(run[m].ticker, m)}

-----------------------------------------------------------------------------
(* Properties of the prediction records *)

\* the validation windows among the first n (i = 0 .. n-1) whose index
\* split_idx + n_steps + i is below len(data) and below len(y)
Contributing(m, n) ==
    {i \in 0..(n - 1) :
        /\ run[m].split_idx + n_steps + i < Len(InputOf(m))
        /\ run[m].split_idx + n_steps + i < Len(run[m].y)}

\* C21: the four per-record lists have equal length; of the validation
\* windows gone through so far exactly those with split_idx + n_steps + i
\* below len(data) and len(y) have a record, and going through a window
\* never raises; with (X, y) = format_feature(data) that is every window,
\* so a run that returns has len(X) - split_idx - n_steps records, one per
\* validation window.
C21_RecordProduction ==
    \A m \in Models :
        LET r == run[m]
        IN  /\ Len(r.test_indices) = Len(r.predictions)
            /\ Len(r.predict_percentages) = Len(r.predictions)
            /\ Len(r.actual_percentages) = Len(r.predictions)
            /\ r.pc \in {"evaluating", "done"} =>
                  /\ r.i <= Len(r.X_val)
                  /\ Len(r.predictions) = Cardinality(Contributing(m, r.i))
                  /\ Contributing(m, r.i) = 0..(r.i - 1)
            /\ r.pc = "done" =>
                  /\ r.i = Len(r.X_val)
                  /\ Len(r.predictions) = Len(r.X) - r.split_idx - n_steps
                  /\ Len(r.predictions) = Len(r.X_val)
            /\ r.pc = "failed" => r.error \in {"ValueError", "IndexError", "ZeroDivisionError"}

\* C21 witness: a run has returned with a record for each of at least two
\* validation windows, the last one at the last row of the data.
C21_Witness ==
    \E m \in Models :
        /\ run[m].pc = "done"
        /\ Len(run[m].X_val) >= 2
        /\ Len(run[m].predictions) = Len(run[m].X_val)
        /\ run[m].split_idx + n_steps + Len(run[m].X_val) = Len(InputOf(m)) - 1

-----------------------------------------------------------------------------
(* Properties of the learning rate *)

\* the rate of the updates of epoch e (1-based), as a power of gamma
RateOfEpoch(e) == (e - 1) \div step_size

RateSchedule ==
    \A m \in Models :
        /\ \A e \in 1..Len(run[m].lr_used) : run[m].lr_used[e] = RateOfEpoch(e)
        /\ Len(run[m].lr_used) = Len(run[m].train_losses)
        /\ run[m].pc \in {"training", "validating"} =>
              run[m].scheduler.lr = RateOfEpoch(run[m].epoch + 1)

\* the rate is assigned only at the end of an epoch, after its validation
\* pass
RateStep(r, q) ==
    q.scheduler.lr # r.scheduler.lr =>
        /\ r.pc = "validating"
        /\ q.pc = "training"
        /\ q.epoch = r.epoch + 1
        /\ q.lr_used = r.lr_used

\* C22: every parameter update of epoch e (1-based) uses the rate
\* lr0 * 0.1^floor((e - 1) / 50); the rate is constant within an epoch,
\* changes only between epochs, and first drops for epoch 51.
C22_StepDecay ==
    /\ []RateSchedule
    /\ [][\A m \in Models : RateStep(run[m], run'[m])]_vars

\* C22 witness: a run of more than 100 epochs has used the initial rate in
\* epoch 50, a tenth of it in epochs 51 and 100 and a hundredth in epoch 101.
C22_Witness ==
    \E m \in Models :
        /\ run[m].pc = "done"
        /\ Len(run[m].lr_used) = 2 * step_size + 1
        /\ run[m].lr_used[step_size] = 0
        /\ run[m].lr_used[step_size + 1] = 1
        /\ run[m].lr_used[2 * step_size] = 1
        /\ run[m].lr_used[2 * step_size + 1] = 2

-----------------------------------------------------------------------------
(* Properties of the two pipelines side by side *)

\* t occurs in the string s
Contains(s, t) == \E k \in 1..(Len(s) - Len(t) + 1) : SubSeq(s, k, k + Len(t) - 1) = t

\* the paths a run of predict writes for a ticker and a model type
PathsOf(ticker, model_type) ==
    {"pic/loss/" \o ticker \o "_" \o model_type \o "_loss.png",
     "pic/earnings/" \o ticker \o "_" \o model_type \o "_cumulative.png",
     "pic/predictions/" \o ticker \o "_" \o model_type \o "_prediction.png",
     "predictions/" \o ticker \o "_" \o model_type \o "_predictions.pkl",
     "output/" \o ticker \o "_prediction_metrics_" \o model_type \o "_attention.csv",
     "output/" \o ticker \o "_prediction_summary_" \o model_type \o "_attention.txt"}

\* the close the k-th record of run r is built on: the same row of the
\* data in either run
BuiltOn(r, k, close) ==
    Val(r.predictions[k]) * 100 = (SC * 100 + Val(r.predict_percentages[k])) * Val(close)

SamePreparation(a, b) ==
    /\ a.split_idx = b.split_idx
    /\ a.scaler_X = b.scaler_X /\ a.scaler_y = b.scaler_y
    /\ a.X_train = b.X_train /\ a.y_train = b.y_train
    /\ a.X_val = b.X_val /\ a.y_val = b.y_val
    /\ (a.error \in {"ValueError", "IndexError"}) = (b.error \in {"ValueError", "IndexError"})

SameRecords(a, b) ==
    \A k \in 1..Len(a.test_indices) :
        k <= Len(b.test_indices) =>
            /\ a.test_indices[k] = b.test_indices[k]
            /\ a.actual_percentages[k] = b.actual_percentages[k]
            /\ BuiltOn(a, k, data[a.split_idx + n_steps + k - 1].Close)
            /\ BuiltOn(b, k, data[a.split_idx + n_steps + k - 1].Close)

=============================================================================
